---- MODULE Spec2Model ----
(***************************************************************************)
(* A model of the chunked, token-budgeted, rate-limited dispatch pipeline  *)
(* of run_script.py, ai.py and text_splitter.py.                           *)
(*                                                                         *)
(* A table is a record DataFrame(rows, dtype): rows is the ordered         *)
(* sequence of row identities (the i-th row of the source table is i) and  *)
(* dtype tags the column types ("source" as read from the input file,      *)
(* "json" as built from a parsed response, "String" after the cast to      *)
(* strings); columns is the set of its column names.  Python's None is     *)
(* the record None.                                                        *)
(***************************************************************************)
EXTENDS Integers, Sequences, FiniteSets, TLC

\* ------------------------------------------------------------------ bounds
MaxRows == 8
MaxChunkSize == 9
MaxChunks == 3
MaxTimedChunks == 3
MaxTime == 45

\* the longest raw text given to the normalizer alone
MaxTextLen == 5

\* the most output files on the disk, and the minutes the clock goes on
MaxFiles == 3

\* the most chunks of a run whose answers may differ in their columns
MaxSchemaChunks == 2

MaxTicks == 2

\* the chunks of a short run with a clock
MaxFewTimedChunks == 2

\* the chunks of a run in which remote calls may never return
MaxHangChunks == 2

\* the chunks of a run in which every remote call returns
MaxLiveChunks == 2

\* ------------------------------------------------- run_script.py settings
TIME_WINDOW == 60
CHUNK_SIZE == 15

\* ------------------------------------------------------- Python primitives
None == [kind |-> "None"]

\* the columns of the source table
SourceColumns == {"row"}

DataFrame(rows, dtype) ==
    [kind |-> "DataFrame", rows |-> rows, dtype |-> dtype,
     columns |-> SourceColumns]

Min(a, b) == IF a <= b THEN a ELSE b

Max(a, b) == IF a >= b THEN a ELSE b

\* range(1, n + 1) as a sequence: the rows of an n-row source table
RowIds(n) == [k \in 1..n |-> k]

\* math.ceil(a / b) for a >= 0 and b # 0
Ceil(a, b) == IF b > 0 THEN (a + b - 1) \div b ELSE -(a \div (-b))

\* polars DataFrame.slice(offset, length) on the row sequence, offset >= 0
Slice(rows, offset, length) ==
    IF length <= 0 THEN <<>>
    ELSE SubSeq(rows, offset + 1, Min(offset + length, Len(rows)))

\* concatenation of a sequence of row sequences, in list order
RECURSIVE Flatten(_)
Flatten(seqs) ==
    IF seqs = <<>> THEN <<>> ELSE Head(seqs) \o Flatten(Tail(seqs))

\* ------------------------------------------------------------------ chunker
\* a variant of the loop below whose slices run one row too far
RECURSIVE ChunkLoopOverlapping(_, _, _, _, _)
ChunkLoopOverlapping(df, chunk_size, num_chunks, i, chunks) ==
    IF i >= num_chunks THEN chunks
    ELSE LET total_rows == Len(df.rows)
             start_idx == i * chunk_size
             end_idx == Min((i + 1) * chunk_size + 1, total_rows)
             chunk == DataFrame(Slice(df.rows, start_idx, end_idx - start_idx),
                                df.dtype)
         IN ChunkLoopOverlapping(df, chunk_size, num_chunks, i + 1,
                                 IF Len(chunk.rows) > 0 THEN Append(chunks, chunk)
                                                        ELSE chunks)

\* text_splitter.py: the loop of chunk_polars_dataframe, iteration i onwards
RECURSIVE ChunkLoop(_, _, _, _, _)
ChunkLoop(df, chunk_size, num_chunks, i, chunks) ==
    IF i >= num_chunks THEN chunks
    ELSE LET total_rows == Len(df.rows)
             start_idx == i * chunk_size
             end_idx == Min((i + 1) * chunk_size, total_rows)
             chunk == DataFrame(Slice(df.rows, start_idx, end_idx - start_idx),
                                df.dtype)
         IN ChunkLoop(df, chunk_size, num_chunks, i + 1,
                      IF Len(chunk.rows) > 0 THEN Append(chunks, chunk)
                                             ELSE chunks)

\* chunk_size = 0 on a non-empty table: total_rows / chunk_size raises
ChunkRaises(df, chunk_size) ==
    df # None /\ Len(df.rows) # 0 /\ chunk_size = 0

\* a variant of the function below that rounds the number of chunks down
chunk_polars_dataframe_floor(df, chunk_size) ==
    IF df = None \/ Len(df.rows) = 0 THEN <<>>
    ELSE ChunkLoop(df, chunk_size, Len(df.rows) \div chunk_size, 0, <<>>)

\* a variant of the function below that keeps the empty table as a chunk
chunk_polars_dataframe_keep_empty(df, chunk_size) ==
    IF df = None THEN <<>>
    ELSE IF Len(df.rows) = 0 THEN <<df>>
    ELSE ChunkLoop(df, chunk_size, Ceil(Len(df.rows), chunk_size), 0, <<>>)

\* the list chunk_polars_dataframe returns, when it does not raise
chunk_polars_dataframe(df, chunk_size) ==
    IF df = None \/ Len(df.rows) = 0 THEN <<>>
    ELSE ChunkLoop(df, chunk_size, Ceil(Len(df.rows), chunk_size), 0, <<>>)

\* ------------------------------------------------------------- token budget
MODEL_TOKEN_LIMITS ==
    [m \in {"gemini-2.0-flash-001", "gemini-2.0-flash", "gemini-2.0-flash-exp",
            "gemini-1.5-pro", "gemini-1.5-pro-001", "gemini-1.5-pro-002",
            "gemini-1.5-flash", "gemini-1.5-flash-001", "gemini-1.5-flash-002",
            "gemini-1.5-flash-8b"} |-> 8192]
    @@
    [m \in {"gemini-2.5-pro", "gemini-2.5-pro-preview-06-05",
            "gemini-2.5-flash", "gemini-2.5-flash-preview-05-20"} |-> 65536]

\* the configured model of run_script.py
MODEL_NAME == "gemini-2.0-flash-001"

\* "" stands for a falsy model_name (None or the empty string)
get_model_name(name) == IF name # "" THEN name ELSE "gemini-2.0-flash-001"

\* dict.get(model_name, 8192)
get_model_token_limit(name) ==
    LET m == get_model_name(name)
    IN IF m \in DOMAIN MODEL_TOKEN_LIMITS THEN MODEL_TOKEN_LIMITS[m] ELSE 8192

\* a variant of the function below without the 50% margin
calculate_safe_input_limit_whole(name) == get_model_token_limit(name)

\* int(output_limit * 0.5)
calculate_safe_input_limit(name) == (get_model_token_limit(name) * 5) \div 10

\* the remote tokenizer's answer: it raised, or it counted total_tokens
Counted(n) == [raised |-> FALSE, total_tokens |-> n]

CountFailed == [raised |-> TRUE, total_tokens |-> 0]

\* a variant of the function below that reports a failed count as a count
\* above every limit
count_tokens_with_gemini_over(answer) ==
    IF answer.raised THEN 65537 ELSE answer.total_tokens

\* response.total_tokens, or 0 when the count raised
count_tokens_with_gemini(answer) ==
    IF answer.raised THEN 0 ELSE answer.total_tokens

Triple(is_valid, token_count, safe_limit) ==
    [is_valid |-> is_valid, token_count |-> token_count, safe_limit |-> safe_limit]

\* a variant of the function below where content of exactly the limit fails
validate_token_limit_strict(answer, name) ==
    LET token_count == count_tokens_with_gemini(answer)
        safe_limit == calculate_safe_input_limit(name)
    IN Triple(token_count < safe_limit, token_count, safe_limit)

validate_token_limit(answer, name) ==
    LET token_count == count_tokens_with_gemini(answer)
        safe_limit == calculate_safe_input_limit(name)
    IN Triple(token_count <= safe_limit, token_count, safe_limit)

\* raises: an exception came out of the try block of validate_content_tokens
validate_content_tokens(answer, name, raises) ==
    IF raises THEN Triple(TRUE, 0, 0)
    ELSE LET r == validate_token_limit(answer, name)
         IN IF ~r.is_valid THEN Triple(FALSE, r.token_count, r.safe_limit)
            ELSE Triple(TRUE, r.token_count, r.safe_limit)

\* ------------------------------------------- Python float (IEEE 754 double)
\* A positive float is [limbs, exp]: limbs is the numeral in base Limb, most
\* significant digit first, of an integer m, and the value is m * 2^exp.  The
\* numerals are sequences because m does not fit a model integer.

\* the number of bits of the significand of a double
MantissaBits == 53

\* the number of bits of a digit of a numeral, and the base
LimbBits == 13

Limb == 8192

RECURSIVE StripZeros(_)
StripZeros(limbs) ==
    IF limbs = <<>> \/ Head(limbs) # 0 THEN limbs ELSE StripZeros(Tail(limbs))

\* the number of bits of n >= 0
RECURSIVE BitLength(_)
BitLength(n) == IF n = 0 THEN 0 ELSE 1 + BitLength(n \div 2)

\* the numeral of n >= 0
RECURSIVE IntToLimbs(_)
IntToLimbs(n) ==
    IF n = 0 THEN <<>> ELSE Append(IntToLimbs(n \div Limb), n % Limb)

\* the integer of a numeral below 2^31
RECURSIVE LimbsToInt(_)
LimbsToInt(limbs) ==
    IF limbs = <<>> THEN 0
    ELSE Limb * LimbsToInt(SubSeq(limbs, 1, Len(limbs) - 1)) + limbs[Len(limbs)]

\* the numeral of m + 1
RECURSIVE Increment(_)
Increment(limbs) ==
    IF limbs = <<>> THEN <<1>>
    ELSE IF limbs[Len(limbs)] < Limb - 1
         THEN [limbs EXCEPT ![Len(limbs)] = @ + 1]
         ELSE Append(Increment(SubSeq(limbs, 1, Len(limbs) - 1)), 0)

\* the numeral of m \div d and m % d, for 1 <= d <= Limb
RECURSIVE DivSmallLoop(_, _, _, _, _)
DivSmallLoop(limbs, d, i, r, acc) ==
    IF i > Len(limbs) THEN [q |-> acc, r |-> r]
    ELSE LET t == Limb * r + limbs[i]
         IN DivSmallLoop(limbs, d, i + 1, t % d, Append(acc, t \div d))

\* digit c (from the last, 0) of a product, before the carries
RECURSIVE ColumnSum(_, _, _, _)
ColumnSum(a, b, c, i) ==
    IF i > c THEN 0
    ELSE (IF i < Len(a) /\ c - i < Len(b)
          THEN a[Len(a) - i] * b[Len(b) - (c - i)] ELSE 0)
         + ColumnSum(a, b, c, i + 1)

\* the numeral of the product of two numerals
RECURSIVE MulLoop(_, _, _, _, _)
MulLoop(a, b, c, carry, acc) ==
    IF c > Len(a) + Len(b) - 2 THEN IntToLimbs(carry) \o acc
    ELSE LET t == ColumnSum(a, b, c, 0) + carry
         IN MulLoop(a, b, c + 1, t \div Limb, <<t % Limb>> \o acc)

\* round to nearest, ties to even: the double nearest to m * 2^exp (plus a
\* non-zero part below its last bit when sticky)
RoundToDouble(limbs, exp, sticky) ==
    LET b == StripZeros(limbs)
        n == Len(b)
        bits == IF n = 0 THEN 0 ELSE LimbBits * (n - 1) + BitLength(b[1])
        drop == bits - MantissaBits
    IN IF drop <= 0 THEN [limbs |-> b, exp |-> exp]
       ELSE LET s == ((drop - 1) % LimbBits) + 1
                w == (drop - s) \div LimbBits
                d == DivSmallLoop(SubSeq(b, 1, n - w), 2 ^ s, 1, 0, <<>>)
                kept == StripZeros(d.q)
                guard == d.r >= 2 ^ (s - 1)
                rest == \/ sticky
                        \/ d.r % (2 ^ (s - 1)) # 0
                        \/ \E k \in (n - w + 1)..n : b[k] # 0
                up == guard /\ (rest \/ kept[Len(kept)] % 2 = 1)
            IN [limbs |-> IF up THEN Increment(kept) ELSE kept,
                exp |-> exp + drop]

\* k more bits of the quotient r / d, r < d < 2^30: the digit and the
\* remainder
RECURSIVE DivStep(_, _, _, _)
DivStep(r, d, k, q) ==
    IF k = 0 THEN [q |-> q, r |-> r]
    ELSE LET bit == IF 2 * r >= d THEN 1 ELSE 0
         IN DivStep(2 * r - bit * d, d, k - 1, 2 * q + bit)

\* long division r / d, r < d: the first significant digit of the quotient
\* and the five after it, their exponent, and whether a remainder is left
RECURSIVE DivLoop(_, _, _, _)
DivLoop(r, d, acc, shift) ==
    IF Len(acc) = 6
    THEN [limbs |-> acc, exp |-> -(LimbBits * shift), sticky |-> r # 0]
    ELSE LET t == DivStep(r, d, LimbBits, 0)
         IN DivLoop(t.r, d,
                    IF acc = <<>> /\ t.q = 0 THEN acc ELSE Append(acc, t.q),
                    shift + 1)

\* a / b for integers 0 < a < b: int / int is correctly rounded
float_div(a, b) ==
    LET q == DivLoop(a, b, <<>>, 0)
    IN RoundToDouble(q.limbs, q.exp, q.sticky)

\* x * y
float_mul(x, y) ==
    RoundToDouble(MulLoop(x.limbs, y.limbs, 0, 0, <<>>), x.exp + y.exp, FALSE)

\* float(n) for an integer 1 <= n < 2^31
float_of_int(n) == [limbs |-> IntToLimbs(n), exp |-> 0]

\* the literal 0.8: the double 0x1999999999999A * 2^-53
float_0_8 == [limbs |-> <<1, 4915, 1638, 3276, 6554>>, exp |-> -53]

\* int(x) for a float 0 <= x < 2^31
float_to_int(x) ==
    IF x.exp >= 0 THEN LimbsToInt(x.limbs) * 2 ^ x.exp
    ELSE LET s == (-x.exp) % LimbBits
             w == (-x.exp) \div LimbBits
             n == Len(x.limbs)
         IN IF w >= n THEN 0
            ELSE LimbsToInt(StripZeros(
                     DivSmallLoop(SubSeq(x.limbs, 1, n - w), 2 ^ s, 1, 0, <<>>).q))

\* ------------------------------------------------- adaptive resubmission
\* max(1, int(current_chunk_size * reduction_factor * 0.8)) with
\* reduction_factor = safe_limit / token_count, in float arithmetic; for
\* current_chunk_size >= 1 and 0 <= safe_limit < token_count
\* a variant of the function below without the floor of 1
calculate_optimal_chunk_size_no_floor(current_chunk_size, token_count, safe_limit) ==
    IF token_count <= safe_limit THEN current_chunk_size
    ELSE IF safe_limit = 0 THEN 0
    ELSE float_to_int(float_mul(
             float_mul(float_of_int(current_chunk_size),
                       float_div(safe_limit, token_count)),
             float_0_8))

calculate_optimal_chunk_size(current_chunk_size, token_count, safe_limit) ==
    IF token_count <= safe_limit THEN current_chunk_size
    ELSE IF safe_limit = 0 THEN 1
    ELSE LET reduction_factor == float_div(safe_limit, token_count)
         IN Max(1, float_to_int(float_mul(
                       float_mul(float_of_int(current_chunk_size),
                                 reduction_factor),
                       float_0_8)))

\* chunk_df[i:i + target_size] for i in range(0, len(chunk_df), target_size)
RECURSIVE SplitLoop(_, _, _, _)
SplitLoop(chunk_df, target_size, i, chunks) ==
    IF i >= Len(chunk_df.rows) THEN chunks
    ELSE SplitLoop(chunk_df, target_size, i + target_size,
                   Append(chunks,
                          DataFrame(Slice(chunk_df.rows, i, target_size),
                                    chunk_df.dtype)))

\* a variant of the function below that never splits
split_chunk_intelligently_whole(chunk_df, target_size) == <<chunk_df>>

\* target_size >= 1
split_chunk_intelligently(chunk_df, target_size) ==
    IF Len(chunk_df.rows) <= target_size THEN <<chunk_df>>
    ELSE SplitLoop(chunk_df, target_size, 0, <<>>)

\* ------------------------------------------------------------ text values
\* A Python str is Str(chars); chars is a sequence of tokens: the brackets
\* of a JSON array, one token per serialised row, prose, and text that is
\* not JSON.
Str(chars) == [kind |-> "str", chars |-> chars]

LB == [t |-> "[", v |-> 0]

RB == [t |-> "]", v |-> 0]

NOISE == [t |-> "noise", v |-> 0]

JUNK == [t |-> "junk", v |-> 0]

RowTok(r) == [t |-> "row", v |-> r]

\* a row object that has one key more than the rows of the source
WideTok(r) == [t |-> "wide", v |-> r]

\* the keys of a row object
Keys(obj) ==
    IF obj.t = "wide" THEN SourceColumns \cup {"extra"} ELSE SourceColumns

RowToks(rows) == [k \in 1..Len(rows) |-> RowTok(rows[k])]

\* write_json, json.loads, json.dumps: the rows as the text of a JSON array
JsonText(data_df) == Str(<<LB>> \o RowToks(data_df.rows) \o <<RB>>)

\* ------------------------------------------------------ response normalizer
\* 1-based positions of the tokens of s that are t
Positions(s, t) == {k \in 1..Len(s) : s[k] = t}

SetMin(S) == CHOOSE x \in S : \A y \in S : x <= y

SetMax(S) == CHOOSE x \in S : \A y \in S : x >= y

\* a variant of the function below that stops at the first ']'
response_data_cleansed_first_end(ai_response) ==
    IF ai_response = None THEN None
    ELSE LET s == ai_response.chars
             starts_ == Positions(s, LB)
             ends_ == Positions(s, RB)
         IN IF starts_ # {} /\ ends_ # {}
            THEN Str(SubSeq(s, SetMin(starts_), SetMin(ends_)))
            ELSE None

\* a variant of the function below that leaves the two brackets out
response_data_cleansed_inner(ai_response) ==
    IF ai_response = None THEN None
    ELSE LET s == ai_response.chars
             starts_ == Positions(s, LB)
             ends_ == Positions(s, RB)
         IN IF starts_ # {} /\ ends_ # {}
            THEN Str(SubSeq(s, SetMin(starts_) + 1, SetMax(ends_) - 1))
            ELSE None

\* re.search on None raises TypeError, which the except turns into None;
\* without a match the function falls off its end and returns None
response_data_cleansed(ai_response) ==
    IF ai_response = None THEN None
    ELSE LET s == ai_response.chars
             starts_ == Positions(s, LB)
             ends_ == Positions(s, RB)
         IN IF starts_ # {} /\ ends_ # {}
            THEN LET json_start == SetMin(starts_) - 1
                     json_end == Len(s) - (Len(s) - SetMax(ends_))
                 IN Str(SubSeq(s, json_start + 1, json_end))
            ELSE None

\* json.loads: [raised, value]; raises TypeError on None and JSONDecodeError
\* on text that is not a JSON array of row objects
json_loads(text) ==
    IF text = None THEN [raised |-> TRUE, value |-> <<>>]
    ELSE LET s == text.chars
             n == Len(s)
         IN IF n >= 2 /\ s[1] = LB /\ s[n] = RB
                /\ \A k \in 2..(n - 1) : s[k].t \in {"row", "wide"}
            THEN [raised |-> FALSE, value |-> [k \in 1..(n - 2) |-> s[k + 1]]]
            ELSE [raised |-> TRUE, value |-> <<>>]

\* pl.DataFrame(json_output)
pl_DataFrame(json_output) ==
    [kind |-> "DataFrame",
     rows |-> [k \in 1..Len(json_output) |-> json_output[k].v],
     dtype |-> "json",
     columns |-> IF json_output = <<>> THEN {}
                 ELSE UNION {Keys(json_output[k]) : k \in 1..Len(json_output)}]

\* with_columns(pl.all().cast(pl.String))
imposed_string_format(df_output) == [df_output EXCEPT !.dtype = "String"]

\* run_script.py 196-203 and 234-241: clean, parse, build, cast.
\* [raised, df]: raised when one of the steps raised
ProcessResponse(ai_response) ==
    LET ai_response_str == response_data_cleansed(ai_response)
        json_output == json_loads(ai_response_str)
    IN IF json_output.raised THEN [raised |-> TRUE, df |-> None]
       ELSE [raised |-> FALSE,
             df |-> imposed_string_format(pl_DataFrame(json_output.value))]

\* a variant of the function below that stacks frames of different columns,
\* filling what is missing
pl_concat_diagonal(dfs) ==
    [raised |-> FALSE,
     df |-> [kind |-> "DataFrame",
             rows |-> Flatten([k \in 1..Len(dfs) |-> dfs[k].rows]),
             dtype |-> dfs[1].dtype,
             columns |-> UNION {dfs[k].columns : k \in 1..Len(dfs)}]]

\* pl.concat(dfs, how="vertical") of a non-empty list: [raised, df]; frames
\* of different columns or types cannot be stacked
pl_concat(dfs) ==
    IF \A k \in 1..Len(dfs) :
           dfs[k].dtype = dfs[1].dtype /\ dfs[k].columns = dfs[1].columns
    THEN [raised |-> FALSE,
          df |-> [kind |-> "DataFrame",
                  rows |-> Flatten([k \in 1..Len(dfs) |-> dfs[k].rows]),
                  dtype |-> dfs[1].dtype,
                  columns |-> dfs[1].columns]]
    ELSE [raised |-> TRUE, df |-> None]

\* the for loop of combine_dataframes_loop over dataframes[i..], combined so
\* far: [raised, df]
RECURSIVE CombineLoop(_, _, _)
CombineLoop(dataframes, i, combined_df) ==
    IF i > Len(dataframes) THEN [raised |-> FALSE, df |-> combined_df]
    ELSE IF combined_df.rows # <<>>
         THEN LET c == pl_concat(<<combined_df, dataframes[i]>>)
              IN IF c.raised THEN c ELSE CombineLoop(dataframes, i + 1, c.df)
         ELSE CombineLoop(dataframes, i + 1, dataframes[i])

\* combine_dataframes_loop(dataframes): [raised, df]; pl.DataFrame() is the
\* table of no column and no row
combine_dataframes_loop(dataframes) ==
    IF dataframes = <<>> THEN [raised |-> FALSE, df |-> pl_DataFrame(<<>>)]
    ELSE CombineLoop(dataframes, 1, pl_DataFrame(<<>>))

\* ------------------------------------------------------------ output paths
MinutesPerDay == 24 * 60

\* the minute of the clock at the start, two minutes before a midnight
FirstMinute == MinutesPerDay - 2

\* strftime("%Y%m%d") of the clock t: the day
strftime_date(t) == [day |-> t \div MinutesPerDay]

\* strftime("%Y%m%d_%H%M") of the clock t: the day, the hour and the minute
strftime_time(t) ==
    [day |-> t \div MinutesPerDay,
     hour |-> (t % MinutesPerDay) \div 60,
     minute |-> t % 60]

\* os.path.join(base_dir, f"Results_{current_date}")
Subfolder(base_dir, current_date) ==
    [base_dir |-> base_dir, results |-> current_date]

\* os.path.join(subfolder, f"{prefix}_{current_time}.xlsx") for version 0,
\* os.path.join(subfolder, f"{prefix}_{current_time}_v{version}.xlsx") above
XlsxPath(subfolder, prefix, current_time, version) ==
    [subfolder |-> subfolder, prefix |-> prefix, time |-> current_time,
     version |-> version]

\* a variant of the loop below that never looks at the disk
VersionLoopBlind(existing, subfolder, prefix, current_time, version) ==
    XlsxPath(subfolder, prefix, current_time, version)

\* the while loop of get_versioned_output_path, entered with version 1
RECURSIVE VersionLoop(_, _, _, _, _)
VersionLoop(existing, subfolder, prefix, current_time, version) ==
    LET versioned_path == XlsxPath(subfolder, prefix, current_time, version)
    IN IF versioned_path \in existing
       THEN VersionLoop(existing, subfolder, prefix, current_time, version + 1)
       ELSE versioned_path

\* get_versioned_output_path(base_dir, prefix) when the first reading of the
\* clock is date_now, the second time_now, and the paths of existing are on
\* the disk: the path returned (the subfolder is made on the way)
get_versioned_output_path(base_dir, prefix, date_now, time_now, existing) ==
    LET current_date == strftime_date(date_now)
        current_time == strftime_time(time_now)
        subfolder == Subfolder(base_dir, current_date)
        base_path == XlsxPath(subfolder, prefix, current_time, 0)
    IN IF base_path \notin existing THEN base_path
       ELSE VersionLoop(existing, subfolder, prefix, current_time, 1)

\* ==================================================================== state
VARIABLES
    in_df,        \* chunker call: the table passed (a DataFrame or None)
    in_size,      \* chunker call: chunk_size
    out_chunks,   \* chunker call: pending, returned (with the list) or raised
    model_name,   \* data_processor.model_name
    tok_call,     \* the last validate_content_tokens call: inputs and triple
    fn_call,      \* the last call of another method of the pipeline object
                  \* taken alone: its name, arguments and result
    files,        \* the disk: the paths of the files that exist
    dirs,         \* the disk: the directories that exist
    clock,        \* the wall clock, in minutes
    REQUESTS_PER_WINDOW, \* the rate-limit setting of run_script.py
    df,                \* run_script.df, the source table
    df_chunks,         \* run_script.df_chunks
    data_content,      \* data_processor.data_content
    rate_limiter,      \* the value of the asyncio.Semaphore
    main_pc,           \* where main() is
    pc,                \* where each process_chunk task is
    token_answer,      \* per task: what the remote tokenizer answered
    validation,        \* per task: (is_valid, token_count, safe_limit)
    sub_chunks,        \* per task: the sub-chunks of an over-budget chunk
    sub_i,             \* per task: the sub-chunk being processed (1-based)
    all_sub_results,   \* per task: results of the sub-chunks done so far
    inflight,          \* per task: the content of its request in flight
    printed,           \* per task: the diagnostic of its failed request,
                       \* until its result is received
    ret,               \* per task: what process_chunk returned
    completed,         \* task ids in the order the tasks finished
    collected,         \* how many completions process_all_chunks consumed
    all_processed_dfs, \* the accumulator of process_all_chunks
    combined_df,       \* main's combined_df
    now,               \* the clock, in seconds
    wakeAt,            \* per task: when its asyncio.sleep ends
    starts             \* the remote calls started: when, by whom, with what

chunkVars == <<in_df, in_size, out_chunks>>

tokVars == <<model_name, tok_call, fn_call>>

diskVars == <<files, dirs, clock>>

taskVars == <<pc, token_answer, validation, sub_chunks, sub_i, all_sub_results, inflight,
              printed, ret, wakeAt>>

\* run_script.py 67
REQUEST_INTERVAL == TIME_WINDOW \div REQUESTS_PER_WINDOW

\* what the module-level code of run_script.py fixes before main() runs
loadVars == <<REQUESTS_PER_WINDOW, df, df_chunks>>

runVars == <<loadVars, data_content, rate_limiter, main_pc, taskVars,
             completed, collected, all_processed_dfs, combined_df, now, starts>>

vars == <<chunkVars, tokVars, diskVars, runVars>>

\* ---------------------------------------------------------- idle components
ChunkIdle ==
    /\ in_df = None
    /\ in_size = 1
    /\ out_chunks = [status |-> "pending", chunks |-> <<>>]

NoCall == [called |-> FALSE]

TokIdle ==
    /\ model_name = MODEL_NAME
    /\ tok_call = NoCall
    /\ fn_call = NoCall

\* the clock at the start: two minutes before a midnight
DiskIdle ==
    /\ files = {}
    /\ dirs = {}
    /\ clock = FirstMinute

RunIdle ==
    /\ REQUESTS_PER_WINDOW = 4
    /\ df = DataFrame(<<>>, "source")
    /\ df_chunks = <<>>
    /\ data_content = None
    /\ rate_limiter = 0
    /\ main_pc = "idle"
    /\ pc = <<>>
    /\ token_answer = <<>>
    /\ validation = <<>>
    /\ sub_chunks = <<>>
    /\ sub_i = <<>>
    /\ all_sub_results = <<>>
    /\ inflight = <<>>
    /\ printed = <<>>
    /\ ret = <<>>
    /\ completed = <<>>
    /\ collected = 0
    /\ all_processed_dfs = <<>>
    /\ combined_df = None
    /\ now = 0
    /\ wakeAt = <<>>
    /\ starts = {}

\* ======================================================= the chunker alone
Tables == {None} \cup {DataFrame(RowIds(n), "source") : n \in 0..MaxRows}

ChunkSizes == (-2)..MaxChunkSize

InitChunk ==
    /\ in_df \in Tables
    /\ in_size \in ChunkSizes
    /\ out_chunks = [status |-> "pending", chunks |-> <<>>]
    /\ TokIdle
    /\ DiskIdle
    /\ RunIdle

\* one call of chunk_polars_dataframe(in_df, in_size)
CallChunk ==
    /\ out_chunks.status = "pending"
    /\ out_chunks' =
         IF ChunkRaises(in_df, in_size)
         THEN [status |-> "raised", chunks |-> <<>>]
         ELSE [status |-> "returned",
               chunks |-> chunk_polars_dataframe(in_df, in_size)]
    /\ UNCHANGED <<in_df, in_size, tokVars, diskVars, runVars>>

NextChunk == CallChunk

SpecChunk == InitChunk /\ [][NextChunk]_vars

\* ================================================== the token budget alone
ModelNames == DOMAIN MODEL_TOKEN_LIMITS \cup {"unknown-model-xyz", ""}

TokenCounts == {0, 1000, 4095, 4096, 4097, 8192, 32768, 32769, 65536}

TokenAnswers == {CountFailed} \cup {Counted(n) : n \in TokenCounts}

InitTok ==
    /\ ChunkIdle
    /\ TokIdle
    /\ DiskIdle
    /\ RunIdle

\* data_processor.set_model_name(name), or model_name set at construction
SetModelName(name) ==
    /\ model_name' = name
    /\ tok_call' = NoCall
    /\ UNCHANGED <<fn_call, chunkVars, diskVars, runVars>>

\* one call of validate_content_tokens; the tokenizer gives answer
CallValidate(answer, raises) ==
    /\ tok_call' = [called |-> TRUE, answer |-> answer, raises |-> raises,
                    counted |-> count_tokens_with_gemini(answer),
                    ret |-> validate_content_tokens(answer, model_name, raises)]
    /\ UNCHANGED <<model_name, fn_call, chunkVars, diskVars, runVars>>

NextTok ==
    \/ \E name \in ModelNames : SetModelName(name)
    \/ \E answer \in TokenAnswers, raises \in BOOLEAN : CallValidate(answer, raises)

SpecTok == InitTok /\ [][NextTok]_vars

\* ========================================= the other methods, each alone
\* each behaviour is one call of one method on a new data_processing_pipeline
\* a call of the method fn with the arguments args returned ret
Called(fn, args, result) ==
    [called |-> TRUE, fn |-> fn, args |-> args, ret |-> result]

\* chunk sizes, token counts and safe limits of calculate_optimal_chunk_size
CurrentChunkSizes == {1, 15, 77, 100}

SizeTokenCounts == {500, 501, 1000, 1925, 4097, 65536}

SafeLimits == {0, 500, 4096}

InitFn ==
    /\ ChunkIdle
    /\ TokIdle
    /\ DiskIdle
    /\ RunIdle

CallOptimalChunkSize(current_chunk_size, token_count, safe_limit) ==
    /\ fn_call = NoCall
    /\ fn_call' = Called("calculate_optimal_chunk_size",
                         <<current_chunk_size, token_count, safe_limit>>,
                         calculate_optimal_chunk_size(
                             current_chunk_size, token_count, safe_limit))
    /\ UNCHANGED <<model_name, tok_call, chunkVars, diskVars, runVars>>

\* the size returned for a chunk over the budget is given back to the
\* function, for a chunk of that size that is over the same budget still
CallOptimalChunkSizeAgain(token_count) ==
    /\ fn_call.called
    /\ fn_call.fn = "calculate_optimal_chunk_size"
    /\ fn_call.args[2] > fn_call.args[3]
    /\ token_count > fn_call.args[3]
    /\ fn_call' = Called("calculate_optimal_chunk_size",
                         <<fn_call.ret, token_count, fn_call.args[3]>>,
                         calculate_optimal_chunk_size(
                             fn_call.ret, token_count, fn_call.args[3]))
    /\ UNCHANGED <<model_name, tok_call, chunkVars, diskVars, runVars>>

\* the chunks and target sizes of split_chunk_intelligently
SplitChunks == {DataFrame(RowIds(n), "source") : n \in 0..MaxRows}

TargetSizes == 1..MaxChunkSize

CallSplit(chunk_df, target_size) ==
    /\ fn_call = NoCall
    /\ fn_call' = Called("split_chunk_intelligently", <<chunk_df, target_size>>,
                         split_chunk_intelligently(chunk_df, target_size))
    /\ UNCHANGED <<model_name, tok_call, chunkVars, diskVars, runVars>>

\* the raw texts given to response_data_cleansed: every text of at most
\* MaxTextLen characters over '[', ']', a row object and other text
TextChars == {LB, RB, NOISE, RowTok(1)}

RawTexts ==
    {Str(chars) : chars \in UNION {[1..n -> TextChars] : n \in 0..MaxTextLen}}

CallCleansed(ai_response) ==
    /\ fn_call = NoCall
    /\ fn_call' = Called("response_data_cleansed", <<ai_response>>,
                         response_data_cleansed(ai_response))
    /\ UNCHANGED <<model_name, tok_call, chunkVars, diskVars, runVars>>

\* the lists of result tables given to combine_dataframes_loop
ResultTables ==
    {imposed_string_format(pl_DataFrame(objs)) :
        objs \in {<<RowTok(1)>>, <<RowTok(2), RowTok(3)>>, <<WideTok(4)>>}}

ResultLists == UNION {[1..n -> ResultTables] : n \in 0..2}

CallCombine(dataframes) ==
    /\ fn_call = NoCall
    /\ fn_call' = Called("combine_dataframes_loop", <<dataframes>>,
                         combine_dataframes_loop(dataframes))
    /\ UNCHANGED <<model_name, tok_call, chunkVars, diskVars, runVars>>

NextFn ==
    \/ \E token_count \in SizeTokenCounts :
            CallOptimalChunkSizeAgain(token_count)
    \/ \E dataframes \in ResultLists : CallCombine(dataframes)
    \/ \E ai_response \in RawTexts \cup {None} : CallCleansed(ai_response)
    \/ \E chunk_df \in SplitChunks, target_size \in TargetSizes :
            CallSplit(chunk_df, target_size)
    \/ \E current_chunk_size \in CurrentChunkSizes,
          token_count \in SizeTokenCounts, safe_limit \in SafeLimits :
            CallOptimalChunkSize(current_chunk_size, token_count, safe_limit)

SpecFn == InitFn /\ [][NextFn]_vars

\* ======================================= the output path and the disk, alone
\* run_script.py 89-90, and the prefix of the test
output_dir == "Output for Dimensions QC"

output_prefix == "Dimensions_Response"

Prefixes == {output_prefix, "Test"}

LastMinute == FirstMinute + MaxTicks

\* the paths of the current minute that something else may create
PathsNow ==
    {XlsxPath(Subfolder(output_dir, strftime_date(clock)), prefix,
              strftime_time(clock), version) :
        prefix \in Prefixes, version \in 0..MaxFiles}

InitPath ==
    /\ ChunkIdle
    /\ TokIdle
    /\ DiskIdle
    /\ RunIdle

\* one call of get_versioned_output_path(base_dir, prefix): the clock is
\* read twice, and a minute may begin between the readings; os.makedirs
\* makes the subfolder
CallVersionedPath(base_dir, prefix) ==
    /\ \E time_now \in {clock, Min(clock + 1, LastMinute)} :
         /\ fn_call' = Called("get_versioned_output_path", <<base_dir, prefix>>,
                              get_versioned_output_path(
                                  base_dir, prefix, clock, time_now, files))
         /\ clock' = time_now
    /\ dirs' = dirs \cup {Subfolder(base_dir, strftime_date(clock))}
    /\ UNCHANGED <<model_name, tok_call, files, chunkVars, runVars>>

\* write_excel(path_for_excel): [raised, files]; it cannot make the file in
\* a directory that does not exist
write_excel(path_for_excel, existing, folders) ==
    IF path_for_excel.subfolder \in folders
    THEN [raised |-> FALSE, files |-> existing \cup {path_for_excel}]
    ELSE [raised |-> TRUE, files |-> existing]

\* one call of response_to_excel with the path just returned: the file is
\* written there, or the exception of write_excel is printed; None either way
CallResponseToExcel ==
    /\ fn_call.called
    /\ fn_call.fn = "get_versioned_output_path"
    /\ Cardinality(files) < MaxFiles
    /\ fn_call' = Called("response_to_excel", <<fn_call.ret>>, None)
    /\ files' = write_excel(fn_call.ret, files, dirs).files
    /\ UNCHANGED <<model_name, tok_call, dirs, clock, chunkVars, runVars>>

\* something else creates a file of the current minute; the path returned
\* by the last call is no longer current
OtherFile(path) ==
    /\ Cardinality(files) < MaxFiles
    /\ path \notin files
    /\ files' = files \cup {path}
    /\ dirs' = dirs \cup {path.subfolder}
    /\ fn_call' = NoCall
    /\ UNCHANGED <<model_name, tok_call, clock, chunkVars, runVars>>

\* a minute passes
TickMinute ==
    /\ clock < LastMinute
    /\ clock' = clock + 1
    /\ fn_call' = NoCall
    /\ UNCHANGED <<model_name, tok_call, files, dirs, chunkVars, runVars>>

NextPath ==
    \/ \E prefix \in Prefixes : CallVersionedPath(output_dir, prefix)
    \/ CallResponseToExcel
    \/ \E path \in PathsNow : OtherFile(path)
    \/ TickMinute

SpecPath == InitPath /\ [][NextPath]_vars

\* ============================================================ the pipeline
\* tables of 1..MaxChunks chunks whose last chunk is partial (7, 22, 37, ...
\* rows), and the empty table
RunRowCounts == {0, 1} \cup {CHUNK_SIZE * k - 8 : k \in 1..MaxChunks}

\* what convert_to_dataframe returns: None when the input file cannot be
\* read, or the table
RunTables == {None} \cup {DataFrame(RowIds(n), "source") : n \in RunRowCounts}

\* run_script.py 123: the module prints df.shape before anything else, which
\* raises on None and ends the script before main() is run
LoadRaises(table) == table = None

\* the shipped setting, 4 requests per window, and a stricter one
RequestsPerWindowSettings == {2, 4}

\* the tokenizer fails, counts exactly the safe limit, or one token more
RunTokenAnswers == {CountFailed, Counted(4096), Counted(4097)}

\* what the remote capability may answer to a request: a failure (None), the
\* rows back as a JSON array, the same wrapped in prose, prose without an
\* array, a bracketed text that is not JSON
Responses(content) ==
    {None,
     Str(content.chars),
     Str(<<NOISE>> \o content.chars \o <<NOISE>>),
     Str(<<NOISE>>),
     Str(<<LB, JUNK, RB>>)}

Tasks == 1..Len(df_chunks)

Pending == [kind |-> "pending"]

Raised == [kind |-> "raised"]

\* the state when main() is about to run, REQUESTS_PER_WINDOW being one of
\* settings
InitRun(settings) ==
    /\ ChunkIdle
    /\ TokIdle
    /\ DiskIdle
    /\ REQUESTS_PER_WINDOW \in settings
    /\ df \in RunTables
    /\ df_chunks = IF LoadRaises(df) THEN <<>>
                   ELSE chunk_polars_dataframe(df, CHUNK_SIZE)
    /\ data_content = IF LoadRaises(df) THEN None ELSE JsonText(df)
    /\ rate_limiter = REQUESTS_PER_WINDOW
    /\ main_pc = IF LoadRaises(df) THEN "crashed" ELSE "start"
    /\ pc = [i \in Tasks |-> "new"]
    /\ token_answer = [i \in Tasks |-> None]
    /\ validation = [i \in Tasks |-> None]
    /\ sub_chunks = [i \in Tasks |-> <<>>]
    /\ sub_i = [i \in Tasks |-> 0]
    /\ all_sub_results = [i \in Tasks |-> <<>>]
    /\ inflight = [i \in Tasks |-> None]
    /\ printed = [i \in Tasks |-> ""]
    /\ ret = [i \in Tasks |-> Pending]
    /\ completed = <<>>
    /\ collected = 0
    /\ all_processed_dfs = <<>>
    /\ combined_df = None
    /\ now = 0
    /\ wakeAt = [i \in Tasks |-> 0]
    /\ starts = {}

Init == InitRun(RequestsPerWindowSettings)

\* Every task has run up to its first suspension, and process_all_chunks has
\* received every finished task.  The tasks' later steps are taken in such
\* states only: the first steps of all tasks precede every timer and reply,
\* and the step that receives a completion touches the driver's variables
\* alone, so it commutes with the steps of the other tasks.
AllStarted ==
    /\ \A j \in Tasks : pc[j] \notin {"new", "created"}
    /\ collected = Len(completed)

\* the task takes the sub-chunk path
OnSubPath(i) == sub_chunks[i] # <<>>

\* a variant of the function below that reads the attribute of the shared
\* data_processor when the call starts
RequestContentShared(i) == data_content

\* a variant of the function below that sends the whole chunk each time
RequestContentWhole(i) == JsonText(df_chunks[i])

\* the local chunk_json (normal path) or sub_chunk_json (sub-chunk path)
\* that process_chunk passes to ai_api_response_async
RequestContent(i) ==
    IF OnSubPath(i) THEN JsonText(sub_chunks[i][sub_i[i]])
    ELSE JsonText(df_chunks[i])

\* main() after process_all_chunks returned dfs, with the paths of existing
\* and the directories of folders on the disk, at the minute t:
\* [main_pc, combined_df, files, dirs].  An exception of pl.concat reaches
\* the except of main(); one of write_excel is caught in response_to_excel
MainFinish(dfs, existing, folders, t) ==
    IF dfs # <<>>
    THEN LET c == pl_concat(dfs)
             output_path == get_versioned_output_path(
                                output_dir, output_prefix, t, t, existing)
             made == folders \cup {output_path.subfolder}
         IN IF c.raised
            THEN [main_pc |-> "error", combined_df |-> None,
                  files |-> existing, dirs |-> folders]
            ELSE [main_pc |-> "written", combined_df |-> c.df,
                  files |-> write_excel(output_path, existing, made).files,
                  dirs |-> made]
    ELSE [main_pc |-> "nothing", combined_df |-> None,
          files |-> existing, dirs |-> folders]

\* main() up to the first await of process_all_chunks: every task is created
CreateTasks ==
    /\ main_pc = "start"
    /\ main_pc' = IF Tasks = {} THEN "combine" ELSE "collect"
    /\ UNCHANGED combined_df
    /\ pc' = [i \in Tasks |-> "created"]
    /\ UNCHANGED <<chunkVars, tokVars, diskVars, loadVars, data_content, rate_limiter,
                   token_answer, validation, sub_chunks, sub_i, all_sub_results,
                   inflight, printed, ret, wakeAt, completed, collected,
                   all_processed_dfs, now, starts>>

\* process_chunk, from its start to its first suspension: JSON, token
\* validation, the split of an over-budget chunk, and the entry into the
\* rate limiter (the slot is taken at once when one is free).  Tasks start in
\* the order they were created.
Start(i) ==
    /\ main_pc = "collect"
    /\ pc[i] = "created"
    /\ \A j \in 1..(i - 1) : pc[j] # "created"
    /\ \E answer \in RunTokenAnswers :
         LET chunk == df_chunks[i]
             v == validate_content_tokens(answer, model_name, FALSE)
             optimal_size == calculate_optimal_chunk_size(
                                 Len(chunk.rows), v.token_count, v.safe_limit)
             subs == IF v.is_valid THEN <<>>
                     ELSE split_chunk_intelligently(chunk, optimal_size)
             got == rate_limiter > 0
         IN /\ token_answer' = [token_answer EXCEPT ![i] = answer]
            /\ validation' = [validation EXCEPT ![i] = v]
            /\ sub_chunks' = [sub_chunks EXCEPT ![i] = subs]
            /\ sub_i' = [sub_i EXCEPT ![i] = IF subs = <<>> THEN 0 ELSE 1]
            /\ rate_limiter' = IF got THEN rate_limiter - 1 ELSE rate_limiter
            /\ pc' = [pc EXCEPT ![i] = IF got THEN "sleep" ELSE "acquire"]
            /\ wakeAt' = [wakeAt EXCEPT
                            ![i] = IF got THEN now + REQUEST_INTERVAL ELSE 0]
            /\ data_content' = IF got /\ subs # <<>> THEN JsonText(subs[1])
                               ELSE JsonText(chunk)
    /\ UNCHANGED <<chunkVars, tokVars, diskVars, loadVars, main_pc, all_sub_results,
                   inflight, printed, ret, completed, collected,
                   all_processed_dfs, combined_df, now, starts>>

\* a variant of the action below that enters without a free slot
AcquireUnguarded(i) ==
    /\ main_pc = "collect"
    /\ AllStarted
    /\ pc[i] = "acquire"
    /\ rate_limiter' = rate_limiter - 1
    /\ pc' = [pc EXCEPT ![i] = "sleep"]
    /\ wakeAt' = [wakeAt EXCEPT ![i] = now + REQUEST_INTERVAL]
    /\ data_content' = IF OnSubPath(i) THEN JsonText(sub_chunks[i][sub_i[i]])
                       ELSE data_content
    /\ UNCHANGED <<chunkVars, tokVars, diskVars, loadVars, main_pc, token_answer,
                   validation, sub_chunks, sub_i, all_sub_results, inflight,
                   printed, ret, completed, collected, all_processed_dfs,
                   combined_df, now, starts>>

\* a task waiting at "async with rate_limiter" gets a slot; on the sub-chunk
\* path it then converts its sub-chunk to JSON; asyncio.sleep begins
Acquire(i) ==
    /\ main_pc = "collect"
    /\ AllStarted
    /\ pc[i] = "acquire"
    /\ rate_limiter > 0
    /\ rate_limiter' = rate_limiter - 1
    /\ pc' = [pc EXCEPT ![i] = "sleep"]
    /\ wakeAt' = [wakeAt EXCEPT ![i] = now + REQUEST_INTERVAL]
    /\ data_content' = IF OnSubPath(i) THEN JsonText(sub_chunks[i][sub_i[i]])
                       ELSE data_content
    /\ UNCHANGED <<chunkVars, tokVars, diskVars, loadVars, main_pc, token_answer,
                   validation, sub_chunks, sub_i, all_sub_results, inflight,
                   printed, ret, completed, collected, all_processed_dfs,
                   combined_df, now, starts>>

\* asyncio.sleep(REQUEST_INTERVAL) is over: the remote call starts with the
\* task's own JSON text
StartCall(i) ==
    /\ main_pc = "collect"
    /\ AllStarted
    /\ pc[i] = "sleep"
    /\ pc' = [pc EXCEPT ![i] = "call"]
    /\ inflight' = [inflight EXCEPT ![i] = RequestContent(i)]
    /\ wakeAt' = [wakeAt EXCEPT ![i] = 0]
    /\ UNCHANGED <<chunkVars, tokVars, diskVars, loadVars, data_content, rate_limiter,
                   main_pc, token_answer, validation, sub_chunks, sub_i,
                   all_sub_results, printed, ret, completed, collected,
                   all_processed_dfs, combined_df, now>>

\* the same with time abstracted away: the sleep may end at any moment
Wake(i) == StartCall(i) /\ UNCHANGED starts

\* a variant of the function below that lets the exception out of the task
process_chunk_reraise(raised, value) == IF raised THEN Raised ELSE value

\* the try/except of process_chunk: what it returns when its body raised, or
\* ended with value
process_chunk_return(raised, value) == IF raised THEN None ELSE value

\* what the failure of a request makes the program print: the remote call
\* failed ("Error: ..." of ai_api_response_async), the normalizer found no
\* array ("No match found"), or json.loads rejected the text; "" when the
\* response was processed
Diagnostic(response) ==
    IF response = None THEN "remote call failed"
    ELSE IF response_data_cleansed(response) = None THEN "No match found"
    ELSE IF json_loads(response_data_cleansed(response)).raised
         THEN "JSONDecodeError"
    ELSE ""

\* the rows of a request back as a JSON array whose row objects have one
\* key more
WideText(content) ==
    Str([k \in 1..Len(content.chars) |->
            IF content.chars[k].t = "row" THEN WideTok(content.chars[k].v)
            ELSE content.chars[k]])

\* a variant of the action below that gives the slot back by hand after
\* the response was processed, so that a failure keeps it
ResumeWithLeak(i, responses) ==
    /\ main_pc = "collect"
    /\ AllStarted
    /\ pc[i] = "call"
    /\ \E ai_response \in responses :
       LET r == ProcessResponse(ai_response)
           results == Append(all_sub_results[i], r.df)
           more == ~r.raised /\ OnSubPath(i) /\ sub_i[i] < Len(sub_chunks[i])
           c == pl_concat(results)
           value == IF OnSubPath(i) THEN c.df ELSE r.df
           did_raise == r.raised \/ (OnSubPath(i) /\ c.raised)
       IN /\ printed' = [printed EXCEPT ![i] = Diagnostic(ai_response)]
          /\ IF more
             THEN /\ all_sub_results' = [all_sub_results EXCEPT ![i] = results]
                  /\ sub_i' = [sub_i EXCEPT ![i] = sub_i[i] + 1]
                  /\ \/ /\ pc' = [pc EXCEPT ![i] = "sleep"]
                        /\ wakeAt' = [wakeAt EXCEPT
                                        ![i] = now + REQUEST_INTERVAL]
                        /\ data_content' = JsonText(sub_chunks[i][sub_i[i] + 1])
                        /\ UNCHANGED rate_limiter
                     \/ /\ \E j \in Tasks : j # i /\ pc[j] = "acquire"
                        /\ pc' = [pc EXCEPT ![i] = "acquire"]
                        /\ rate_limiter' = rate_limiter + 1
                        /\ UNCHANGED <<wakeAt, data_content>>
                  /\ UNCHANGED <<ret, completed>>
             ELSE /\ ret' = [ret EXCEPT
                               ![i] = process_chunk_return(did_raise, value)]
                  /\ pc' = [pc EXCEPT ![i] = "done"]
                  /\ completed' = Append(completed, i)
                  /\ rate_limiter' = IF did_raise THEN rate_limiter
                                     ELSE rate_limiter + 1
                  /\ all_sub_results' = [all_sub_results EXCEPT ![i] = <<>>]
                  /\ sub_i' = [sub_i EXCEPT ![i] = 0]
                  /\ UNCHANGED <<wakeAt, data_content>>
    /\ sub_chunks' = [sub_chunks EXCEPT
                        ![i] = IF pc'[i] = "done" THEN <<>> ELSE @]
    /\ token_answer' = [token_answer EXCEPT
                          ![i] = IF pc'[i] = "done" THEN None ELSE @]
    /\ validation' = [validation EXCEPT
                        ![i] = IF pc'[i] = "done" THEN None ELSE @]
    /\ inflight' = [inflight EXCEPT ![i] = None]
    /\ UNCHANGED <<chunkVars, tokVars, diskVars, loadVars, main_pc, collected,
                   all_processed_dfs, combined_df, now, starts>>

\* a variant of the action below that returns the results of the
\* sub-chunks processed before the one that failed
ResumeWithPartial(i, responses) ==
    /\ main_pc = "collect"
    /\ AllStarted
    /\ pc[i] = "call"
    /\ \E ai_response \in responses :
       LET r == ProcessResponse(ai_response)
           results == Append(all_sub_results[i], r.df)
           more == ~r.raised /\ OnSubPath(i) /\ sub_i[i] < Len(sub_chunks[i])
           c == pl_concat(results)
           value == IF OnSubPath(i) THEN c.df ELSE r.df
           did_raise == r.raised \/ (OnSubPath(i) /\ c.raised)
       IN /\ printed' = [printed EXCEPT ![i] = Diagnostic(ai_response)]
          /\ IF more
             THEN /\ all_sub_results' = [all_sub_results EXCEPT ![i] = results]
                  /\ sub_i' = [sub_i EXCEPT ![i] = sub_i[i] + 1]
                  /\ \/ /\ pc' = [pc EXCEPT ![i] = "sleep"]
                        /\ wakeAt' = [wakeAt EXCEPT
                                        ![i] = now + REQUEST_INTERVAL]
                        /\ data_content' = JsonText(sub_chunks[i][sub_i[i] + 1])
                        /\ UNCHANGED rate_limiter
                     \/ /\ \E j \in Tasks : j # i /\ pc[j] = "acquire"
                        /\ pc' = [pc EXCEPT ![i] = "acquire"]
                        /\ rate_limiter' = rate_limiter + 1
                        /\ UNCHANGED <<wakeAt, data_content>>
                  /\ UNCHANGED <<ret, completed>>
             ELSE /\ ret' = [ret EXCEPT
                               ![i] = IF did_raise /\ all_sub_results[i] # <<>>
                                      THEN pl_concat(all_sub_results[i]).df
                                      ELSE process_chunk_return(did_raise,
                                                                value)]
                  /\ pc' = [pc EXCEPT ![i] = "done"]
                  /\ completed' = Append(completed, i)
                  /\ rate_limiter' = rate_limiter + 1
                  /\ all_sub_results' = [all_sub_results EXCEPT ![i] = <<>>]
                  /\ sub_i' = [sub_i EXCEPT ![i] = 0]
                  /\ UNCHANGED <<wakeAt, data_content>>
    /\ sub_chunks' = [sub_chunks EXCEPT
                        ![i] = IF pc'[i] = "done" THEN <<>> ELSE @]
    /\ token_answer' = [token_answer EXCEPT
                          ![i] = IF pc'[i] = "done" THEN None ELSE @]
    /\ validation' = [validation EXCEPT
                        ![i] = IF pc'[i] = "done" THEN None ELSE @]
    /\ inflight' = [inflight EXCEPT ![i] = None]
    /\ UNCHANGED <<chunkVars, tokVars, diskVars, loadVars, main_pc, collected,
                   all_processed_dfs, combined_df, now, starts>>

\* the remote capability answers the request in flight and process_chunk
\* runs on from its await to its next suspension: the slot is released, the
\* response is cleaned, parsed and cast; the task returns (its locals are
\* gone), or goes on to its next sub-chunk (taking the slot back at once, or
\* queueing behind the tasks that already wait for one); responses is what
\* the remote capability may answer
ResumeWith(i, responses) ==
    /\ main_pc = "collect"
    /\ AllStarted
    /\ pc[i] = "call"
    /\ \E ai_response \in responses :
       LET r == ProcessResponse(ai_response)
           results == Append(all_sub_results[i], r.df)
           more == ~r.raised /\ OnSubPath(i) /\ sub_i[i] < Len(sub_chunks[i])
           c == pl_concat(results)
           value == IF OnSubPath(i) THEN c.df ELSE r.df
           did_raise == r.raised \/ (OnSubPath(i) /\ c.raised)
       IN /\ printed' = [printed EXCEPT ![i] = Diagnostic(ai_response)]
          /\ IF more
             THEN /\ all_sub_results' = [all_sub_results EXCEPT ![i] = results]
                  /\ sub_i' = [sub_i EXCEPT ![i] = sub_i[i] + 1]
                  /\ \/ /\ pc' = [pc EXCEPT ![i] = "sleep"]
                        /\ wakeAt' = [wakeAt EXCEPT
                                        ![i] = now + REQUEST_INTERVAL]
                        /\ data_content' = JsonText(sub_chunks[i][sub_i[i] + 1])
                        /\ UNCHANGED rate_limiter
                     \/ /\ \E j \in Tasks : j # i /\ pc[j] = "acquire"
                        /\ pc' = [pc EXCEPT ![i] = "acquire"]
                        /\ rate_limiter' = rate_limiter + 1
                        /\ UNCHANGED <<wakeAt, data_content>>
                  /\ UNCHANGED <<ret, completed>>
             ELSE /\ ret' = [ret EXCEPT
                               ![i] = process_chunk_return(did_raise, value)]
                  /\ pc' = [pc EXCEPT ![i] = "done"]
                  /\ completed' = Append(completed, i)
                  /\ rate_limiter' = rate_limiter + 1
                  /\ all_sub_results' = [all_sub_results EXCEPT ![i] = <<>>]
                  /\ sub_i' = [sub_i EXCEPT ![i] = 0]
                  /\ UNCHANGED <<wakeAt, data_content>>
    /\ sub_chunks' = [sub_chunks EXCEPT
                        ![i] = IF pc'[i] = "done" THEN <<>> ELSE @]
    /\ token_answer' = [token_answer EXCEPT
                          ![i] = IF pc'[i] = "done" THEN None ELSE @]
    /\ validation' = [validation EXCEPT
                        ![i] = IF pc'[i] = "done" THEN None ELSE @]
    /\ inflight' = [inflight EXCEPT ![i] = None]
    /\ UNCHANGED <<chunkVars, tokVars, diskVars, loadVars, main_pc, collected,
                   all_processed_dfs, combined_df, now, starts>>

Resume(i) == ResumeWith(i, Responses(inflight[i]))

\* the same, the remote capability answering with a column of its own
ResumeWide(i) == ResumeWith(i, {WideText(inflight[i])})

\* a variant of the function below that keeps the accumulator in the order
\* of the chunks
CollectOneSorted(dfs, df_output) ==
    IF df_output = None THEN dfs
    ELSE LET before == SelectSeq(dfs, LAMBDA d : d.rows[1] < df_output.rows[1])
             after == SelectSeq(dfs, LAMBDA d : d.rows[1] > df_output.rows[1])
         IN before \o <<df_output>> \o after

\* run_script.py 281-283: a result that is not None joins the accumulator
CollectOne(dfs, df_output) ==
    IF df_output # None THEN Append(dfs, df_output) ELSE dfs

\* process_all_chunks receives the next finished task from as_completed;
\* after the last one it returns to main()
Collect ==
    /\ main_pc = "collect"
    /\ collected < Len(completed)
    /\ LET df_output == ret[completed[collected + 1]]
           dfs == CollectOne(all_processed_dfs, df_output)
       IN IF df_output = Raised
          THEN /\ main_pc' = "error"
               /\ UNCHANGED <<collected, all_processed_dfs, combined_df>>
          ELSE /\ collected' = collected + 1
               /\ all_processed_dfs' = dfs
               /\ main_pc' = IF collected + 1 = Len(df_chunks)
                             THEN "combine" ELSE "collect"
               /\ UNCHANGED combined_df
    /\ printed' = [printed EXCEPT ![completed[collected + 1]] = ""]
    /\ UNCHANGED <<chunkVars, tokVars, diskVars, loadVars, data_content, rate_limiter,
                   pc, token_answer, validation, sub_chunks, sub_i,
                   all_sub_results, inflight, ret, wakeAt, completed, now,
                   starts>>

\* an earlier run of the script in this minute wrote its output file.  The
\* run reads the disk when it combines only, so the files of all earlier
\* runs are put there at that point
EarlierRun ==
    /\ main_pc = "combine"
    /\ Cardinality(files) < MaxFiles - 1
    /\ LET output_path == get_versioned_output_path(
                              output_dir, output_prefix, clock, clock, files)
       IN /\ files' = files \cup {output_path}
          /\ dirs' = dirs \cup {output_path.subfolder}
    /\ UNCHANGED <<chunkVars, tokVars, clock, runVars>>

\* main() from the return of process_all_chunks to its end: the results
\* are combined and written, or there is nothing to combine, or the
\* exception is printed
Finish ==
    /\ main_pc = "combine"
    /\ LET f == MainFinish(all_processed_dfs, files, dirs, clock)
       IN /\ main_pc' = f.main_pc
          /\ combined_df' = f.combined_df
          /\ files' = f.files
          /\ dirs' = f.dirs
    /\ UNCHANGED <<chunkVars, tokVars, clock, loadVars, data_content,
                   rate_limiter, taskVars, completed, collected,
                   all_processed_dfs, now, starts>>

Next ==
    \/ CreateTasks
    \/ \E i \in Tasks : Start(i)
    \/ \E i \in Tasks : Acquire(i)
    \/ \E i \in Tasks : Wake(i)
    \/ \E i \in Tasks : Resume(i)
    \/ Collect
    \/ EarlierRun
    \/ Finish

Spec == Init /\ [][Next]_vars

\* ------------------------------------- with answers of different columns
NextSchema ==
    \/ CreateTasks
    \/ \E i \in Tasks : Start(i)
    \/ \E i \in Tasks : Acquire(i)
    \/ \E i \in Tasks : Wake(i)
    \/ \E i \in Tasks : Resume(i)
    \/ \E i \in Tasks : ResumeWide(i)
    \/ Collect
    \/ EarlierRun
    \/ Finish

\* one request at a time, so that a second chunk waits for the slot
InitSchema == InitRun({1}) /\ Len(df_chunks) <= MaxSchemaChunks

SpecSchema == InitSchema /\ [][NextSchema]_vars

\* ------------------------------------------- with calls that never return
\* a variant of the action below in which the slot of a call that never
\* returns is given back
HangReleasing(i) ==
    /\ main_pc = "collect"
    /\ AllStarted
    /\ pc[i] = "call"
    /\ pc' = [pc EXCEPT ![i] = "hung"]
    /\ rate_limiter' = rate_limiter + 1
    /\ UNCHANGED <<chunkVars, tokVars, diskVars, loadVars, data_content,
                   main_pc, token_answer, validation, sub_chunks, sub_i,
                   all_sub_results, inflight, printed, ret, wakeAt, completed,
                   collected, all_processed_dfs, combined_df, now, starts>>

\* the remote call of the task is one that never returns: the await of
\* generate_content (ai.py 359) has no timeout, and nothing cancels the task,
\* so the task stays inside "async with rate_limiter" at its await
Hang(i) ==
    /\ main_pc = "collect"
    /\ AllStarted
    /\ pc[i] = "call"
    /\ pc' = [pc EXCEPT ![i] = "hung"]
    /\ UNCHANGED <<chunkVars, tokVars, diskVars, loadVars, data_content,
                   rate_limiter, main_pc, token_answer, validation, sub_chunks,
                   sub_i, all_sub_results, inflight, printed, ret, wakeAt,
                   completed, collected, all_processed_dfs, combined_df, now,
                   starts>>

NextHang ==
    \/ CreateTasks
    \/ \E i \in Tasks : Start(i)
    \/ \E i \in Tasks : Acquire(i)
    \/ \E i \in Tasks : Wake(i)
    \/ \E i \in Tasks : Resume(i)
    \/ \E i \in Tasks : Hang(i)
    \/ Collect
    \/ EarlierRun
    \/ Finish

\* one request at a time, so that one call that never returns takes every
\* slot
InitHang == InitRun({1}) /\ Len(df_chunks) <= MaxHangChunks

SpecHang == InitHang /\ [][NextHang]_vars

\* ------------------------------------------ with calls that always return
\* The event loop runs every callback that is ready: a task that can take
\* its next step takes it, a timer that is due fires, the driver goes on when
\* a task has finished; and the remote capability answers every request
\* (the assumption under which the program is said to finish).  The script
\* of an earlier run is not part of this run and is under no obligation.
Fairness ==
    /\ WF_vars(CreateTasks)
    /\ WF_vars(Collect)
    /\ WF_vars(Finish)
    /\ \A i \in 1..MaxLiveChunks :
          /\ WF_vars(i \in Tasks /\ Start(i))
          /\ WF_vars(i \in Tasks /\ Acquire(i))
          /\ WF_vars(i \in Tasks /\ Wake(i))
          /\ WF_vars(i \in Tasks /\ Resume(i))

\* one or two requests at a time, so that there can be more chunks than
\* slots
InitLive == InitRun({1, 2}) /\ Len(df_chunks) <= MaxLiveChunks

SpecLive == InitLive /\ [][Next]_vars /\ Fairness

\* ------------------------------------------------------------ with a clock
\* time passes, one request interval at a time, while only sleeps and remote
\* calls are pending: the steps of the tasks themselves take no time
Tick ==
    /\ main_pc = "collect"
    /\ AllStarted
    /\ now < MaxTime
    /\ \A i \in Tasks : pc[i] = "sleep" => wakeAt[i] > now
    /\ rate_limiter > 0 => \A i \in Tasks : pc[i] # "acquire"
    /\ now' = now + REQUEST_INTERVAL
    /\ UNCHANGED <<chunkVars, tokVars, diskVars, loadVars, data_content, rate_limiter,
                   main_pc, taskVars, completed, collected, all_processed_dfs,
                   combined_df, starts>>

\* the sleep ends no earlier than REQUEST_INTERVAL after it began; the start
\* of the call is logged
WakeTimed(i) ==
    /\ now >= wakeAt[i]
    /\ StartCall(i)
    /\ starts' = starts \cup
                   {[at |-> now, task |-> i, content |-> RequestContent(i)]}

NextTimed ==
    \/ CreateTasks
    \/ \E i \in Tasks : Start(i)
    \/ \E i \in Tasks : Acquire(i)
    \/ \E i \in Tasks : WakeTimed(i)
    \/ \E i \in Tasks : Resume(i)
    \/ Collect
    \/ EarlierRun
    \/ Finish
    \/ Tick

InitTimed == Init /\ Len(df_chunks) <= MaxTimedChunks

SpecTimed == InitTimed /\ [][NextTimed]_vars

\* the same with one or two requests per window and few chunks
InitFewTimed == InitRun({1, 2}) /\ Len(df_chunks) <= MaxFewTimedChunks

SpecFewTimed == InitFewTimed /\ [][NextTimed]_vars

\* ================================================================ properties
\* ------------------------------------------------------- of the chunker alone
\* the rows of a list of tables, one after the other in list order
ConcatRows(chunks) == Flatten([k \in 1..Len(chunks) |-> chunks[k].rows])

\* C1: for every table T of N >= 0 rows and every positive chunk size s, the
\* chunks chunk_polars_dataframe(T, s) returns, concatenated in list order,
\* are exactly the rows of T in their order (none lost, none duplicated), and
\* for N = 0 the list of chunks is empty.  A positive size never raises.
C1_ConcatenationIsSource ==
    (in_df # None /\ in_size >= 1 /\ out_chunks.status # "pending") =>
        /\ out_chunks.status = "returned"
        /\ ConcatRows(out_chunks.chunks) = in_df.rows
        /\ Len(in_df.rows) = 0 => out_chunks.chunks = <<>>

\* a table cut into several chunks, the last of them partial
C1_Witness ==
    /\ in_df # None
    /\ in_size >= 2
    /\ out_chunks.status = "returned"
    /\ Len(out_chunks.chunks) >= 3
    /\ Len(in_df.rows) % in_size # 0
    /\ ConcatRows(out_chunks.chunks) = in_df.rows

\* C2: for a table of N > 0 rows and a positive size s there are exactly
\* ceil(N/s) chunks (the k with (k-1)*s < N <= k*s); chunk i (from 0) holds
\* exactly the rows [i*s, min((i+1)*s, N)) of the table; every chunk but
\* possibly the last has s rows; no row is in two chunks; when s >= N the
\* one chunk is the whole table.
C2_ChunkCountAndRanges ==
    (in_df # None /\ in_size >= 1 /\ out_chunks.status = "returned"
       /\ Len(in_df.rows) > 0) =>
        LET N == Len(in_df.rows)
            s == in_size
            chunks == out_chunks.chunks
            k == Len(chunks)
        IN /\ (k - 1) * s < N
           /\ N <= k * s
           /\ \A i \in 0..(k - 1) :
                chunks[i + 1].rows =
                    [j \in 1..(Min((i + 1) * s, N) - i * s) |-> in_df.rows[i * s + j]]
           /\ \A i \in 0..(k - 2) : Len(chunks[i + 1].rows) = s
           /\ Len(chunks[k].rows) \in 1..s
           /\ \A a, b \in 1..k :
                a # b => \A x \in 1..Len(chunks[a].rows), y \in 1..Len(chunks[b].rows) :
                            chunks[a].rows[x] # chunks[b].rows[y]
           /\ s >= N => chunks = <<in_df>>

\* three full chunks and a shorter last one
C2_Witness ==
    /\ in_df # None
    /\ out_chunks.status = "returned"
    /\ in_size = 2
    /\ Len(in_df.rows) = 7
    /\ Len(out_chunks.chunks) = 4
    /\ Len(out_chunks.chunks[4].rows) = 1

C10_CeilingAndSafeLimit ==
    LET ceiling == get_model_token_limit(model_name)
        safe == calculate_safe_input_limit(model_name)
    IN /\ model_name \in DOMAIN MODEL_TOKEN_LIMITS =>
            ceiling = MODEL_TOKEN_LIMITS[model_name]
       /\ model_name \notin (DOMAIN MODEL_TOKEN_LIMITS \cup {""}) => ceiling = 8192
       /\ 2 * safe <= ceiling
       /\ ceiling < 2 * safe + 2
       /\ model_name = "gemini-2.0-flash-001" => ceiling = 8192 /\ safe = 4096
       /\ model_name = "unknown-model-xyz" => ceiling = 8192 /\ safe = 4096
       /\ model_name = "gemini-2.5-pro" => ceiling = 65536 /\ safe = 32768
       /\ (tok_call.called /\ ~tok_call.raises) => tok_call.ret.safe_limit = safe

\* a validation under an identifier that is not in the table
C10_Witness ==
    /\ model_name = "unknown-model-xyz"
    /\ tok_call.called
    /\ ~tok_call.raises
    /\ tok_call.ret.safe_limit = 4096

\* ---------------------------------------------------------- of the pipeline
\* the tasks whose remote call is in flight
InFlight == {i \in Tasks : inflight[i] # None}

\* C3: at every moment of a run, under every interleaving of the
\* process_chunk tasks, the number of remote calls in flight (requests for
\* chunks and for sub-chunks together) is at most REQUESTS_PER_WINDOW.
C3_InFlightBounded ==
    /\ Cardinality(InFlight) <= REQUESTS_PER_WINDOW
    /\ \A i \in Tasks : pc[i] = "call" <=> i \in InFlight

\* as many calls in flight as the setting allows, for a chunk and for a
\* sub-chunk, while another task waits for a slot
C3_Witness ==
    /\ Cardinality(InFlight) = REQUESTS_PER_WINDOW
    /\ \E i \in InFlight : OnSubPath(i)
    /\ \E i \in InFlight : ~OnSubPath(i)
    /\ \E j \in Tasks : pc[j] = "acquire"

\* C6: when every chunk succeeded, each with one row per input row in input
\* order, the combined table holds the rows in the order of the source
\* table, whatever the order in which the tasks completed.
C6_RowOrderPreserved ==
    (main_pc = "written"
       /\ \A i \in Tasks : ret[i] # None /\ ret[i].rows = df_chunks[i].rows) =>
        combined_df.rows = df.rows

\* how many times r occurs in the sequence rows
Occurrences(rows, r) == Cardinality({k \in 1..Len(rows) : rows[k] = r})

\* the tasks whose result process_all_chunks has received
Received == {completed[k] : k \in 1..collected}

\* the members of a sequence of results that are not None, in order
RECURSIVE NotNone(_)
NotNone(results) ==
    IF results = <<>> THEN <<>>
    ELSE IF Head(results) = None THEN NotNone(Tail(results))
         ELSE <<Head(results)>> \o NotNone(Tail(results))

\* C7: a failure while a chunk is processed (the remote call fails, the
\* response holds no bracketed array, the extracted text is not JSON) never
\* leaves process_chunk as an exception: the task returns None and main()
\* sees no error; the failed chunk contributes no row; every other chunk is
\* still processed to its end; the accumulator holds exactly the results that
\* are not None of the tasks received, once each, and the combined table
\* holds each row of a succeeded chunk once and no row of a failed one.
C7_ChunkFailureIsContained ==
    /\ \A i \in Tasks : ret[i] # Raised
    /\ main_pc # "error"
    /\ \A i \in Tasks :
         (pc[i] = "done" /\ i \notin Received) =>
             (printed[i] # "" <=> ret[i] = None)
    /\ \A a, b \in 1..Len(completed) : completed[a] = completed[b] => a = b
    /\ all_processed_dfs = NotNone([k \in 1..collected |-> ret[completed[k]]])
    /\ main_pc \in {"written", "nothing"} =>
         /\ \A i \in Tasks : pc[i] = "done" /\ i \in Received
         /\ main_pc = "nothing" <=> \A i \in Tasks : ret[i] = None
         /\ main_pc = "written" =>
              /\ combined_df.rows = ConcatRows(all_processed_dfs)
              /\ \A i \in Tasks : \A x \in 1..Len(df_chunks[i].rows) :
                   Occurrences(combined_df.rows, df_chunks[i].rows[x]) =
                       IF ret[i] # None THEN 1 ELSE 0

\* a run of three chunks is over: the chunk that completed first had failed,
\* the two others are in the combined table
C7_Witness ==
    /\ main_pc = "written"
    /\ Len(df_chunks) = 3
    /\ ret[completed[1]] = None
    /\ Len(all_processed_dfs) = 2
    /\ Len(combined_df.rows) = Len(df.rows) - Len(df_chunks[completed[1]].rows)

\* C8: when the count of tokens fails, count_tokens_with_gemini returns 0
\* and validate_content_tokens returns is_valid = true with token_count = 0;
\* the chunk is not split: its one request carries the whole chunk, on the
\* normal path, after which the task ends; nothing is raised to main().
C8_CountFailurePassesThrough ==
    /\ [](\A i \in Tasks :
            token_answer[i] = CountFailed =>
                /\ count_tokens_with_gemini(token_answer[i]) = 0
                /\ validation[i].is_valid
                /\ validation[i].token_count = 0
                /\ ~OnSubPath(i)
                /\ i \in InFlight => inflight[i] = JsonText(df_chunks[i])
                /\ ret[i] = Pending
                /\ main_pc = "collect")
    /\ [][\A i \in Tasks :
            (token_answer[i] = CountFailed /\ pc[i] = "call" /\ pc'[i] # "call") =>
                /\ pc'[i] = "done"
                /\ ret'[i] \in {None, DataFrame(df_chunks[i].rows, "String")}]_vars

\* the whole 15-row chunk of a task whose count failed is in flight
C8_Witness ==
    \E i \in Tasks :
        /\ token_answer[i] = CountFailed
        /\ validation[i] = Triple(TRUE, 0, 4096)
        /\ Len(df_chunks[i].rows) = CHUNK_SIZE
        /\ inflight[i] = JsonText(df_chunks[i])

\* ------------------------------------------------- of the pipeline in time
\* C4: any two remote calls started during a run start at least
\* REQUEST_INTERVAL seconds apart; no two start at the same time.
C4_StartsSpaced ==
    \A a, b \in starts :
        a # b => (a.at - b.at >= REQUEST_INTERVAL \/ b.at - a.at >= REQUEST_INTERVAL)

\* C5: in every interval of TIME_WINDOW seconds at most REQUESTS_PER_WINDOW
\* remote calls are started (it is enough to look at the intervals that
\* begin with a start).
C5_StartsPerWindow ==
    \A a \in starts :
        Cardinality({b \in starts : a.at <= b.at /\ b.at < a.at + TIME_WINDOW})
            <= REQUESTS_PER_WINDOW

\* ------------------------------------------------- of the methods alone
\* C11: calculate_optimal_chunk_size(current_size, token_count, safe_limit)
\* returns max(1, floor(current_size * (safe_limit / token_count) * 0.8))
\* when token_count > safe_limit (40 for (100, 1000, 500)), and current_size
\* when token_count <= safe_limit.  The floor is the floor of the exact
\* product, 8 * current_size * safe_limit / (10 * token_count).
C11_OptimalSizeIsFloor ==
    (fn_call.called /\ fn_call.fn = "calculate_optimal_chunk_size") =>
        LET current_size == fn_call.args[1]
            token_count == fn_call.args[2]
            safe_limit == fn_call.args[3]
        IN /\ token_count <= safe_limit => fn_call.ret = current_size
           /\ token_count > safe_limit =>
                fn_call.ret = Max(1, (8 * current_size * safe_limit)
                                        \div (10 * token_count))
           /\ fn_call.args = <<100, 1000, 500>> => fn_call.ret = 40

\* the call whose exact product is the integer 16 returned 15
C11_Witness ==
    /\ fn_call.called
    /\ fn_call.fn = "calculate_optimal_chunk_size"
    /\ fn_call.args = <<77, 1925, 500>>
    /\ fn_call.ret = 15

\* C12: split_chunk_intelligently(chunk, target), target >= 1, returns the
\* chunk's rows cut into consecutive sub-chunks of target rows, the last
\* possibly shorter: sub-chunk i (from 0) holds the rows
\* [i*target, min((i+1)*target, len)), so that their concatenation in order
\* is the chunk; a chunk of len >= 1 rows gives ceil(len/target) sub-chunks
\* (the k with (k-1)*target < len <= k*target); a chunk of len <= target
\* rows gives the single sub-chunk equal to the chunk.
C12_SplitIsContiguousPartition ==
    (fn_call.called /\ fn_call.fn = "split_chunk_intelligently") =>
        LET chunk == fn_call.args[1]
            target == fn_call.args[2]
            len == Len(chunk.rows)
            subs == fn_call.ret
            k == Len(subs)
        IN /\ ConcatRows(subs) = chunk.rows
           /\ \A i \in 0..(k - 1) :
                subs[i + 1] =
                    DataFrame(SubSeq(chunk.rows, i * target + 1,
                                     Min((i + 1) * target, len)),
                              chunk.dtype)
           /\ len >= 1 =>
                /\ (k - 1) * target < len
                /\ len <= k * target
                /\ \A i \in 1..(k - 1) : Len(subs[i].rows) = target
                /\ Len(subs[k].rows) \in 1..target
           /\ len <= target => subs = <<chunk>>

\* seven rows cut by three: two full sub-chunks and one of a single row
C12_Witness ==
    /\ fn_call.called
    /\ fn_call.fn = "split_chunk_intelligently"
    /\ Len(fn_call.args[1].rows) = 7
    /\ fn_call.args[2] = 3
    /\ Len(fn_call.ret) = 3
    /\ fn_call.ret[3].rows = <<7>>

\* ------------------------------------------ of the pipeline: resubmission
\* what the processing of a request for the table data_df gives when the
\* remote capability answers with its rows
Processed(data_df) == DataFrame(data_df.rows, "String")

\* C13: every sub-chunk of an over-budget chunk goes through the whole
\* dispatch path: its request is made with a slot of the rate limiter held,
\* after the sleep that follows the taking of the slot, and carries that
\* sub-chunk alone; its response is normalized after the slot is given back
\* and before the next sub-chunk is begun; the sub-chunks are taken in their
\* order, and the results kept are those of the sub-chunks before the
\* current one, in order.  When all succeed the task returns their
\* concatenation in that order, the rows of the chunk in their original
\* order, whatever the other tasks do in between.
C13_SubChunksFullPath ==
    /\ [](\A i \in Tasks :
            OnSubPath(i) =>
                /\ ConcatRows(sub_chunks[i]) = df_chunks[i].rows
                /\ sub_i[i] \in 1..Len(sub_chunks[i])
                /\ all_sub_results[i] =
                       [k \in 1..(sub_i[i] - 1) |-> Processed(sub_chunks[i][k])]
                /\ pc[i] \in {"acquire", "sleep", "call"}
                /\ pc[i] \in {"sleep", "call"} =>
                       rate_limiter < REQUESTS_PER_WINDOW
                /\ i \in InFlight =>
                       inflight[i] = JsonText(sub_chunks[i][sub_i[i]]))
    /\ [][\A i \in Tasks :
            (sub_chunks[i] = <<>> /\ sub_chunks'[i] # <<>>) =>
                sub_chunks'[i] =
                    split_chunk_intelligently(
                        df_chunks[i],
                        calculate_optimal_chunk_size(
                            Len(df_chunks[i].rows),
                            validation'[i].token_count,
                            validation'[i].safe_limit))]_vars
    /\ [][\A i \in Tasks :
            OnSubPath(i) =>
                /\ (pc'[i] = "call" /\ pc[i] # "call") => pc[i] = "sleep"
                /\ (pc'[i] = "sleep" /\ pc[i] = "acquire") =>
                       rate_limiter' = rate_limiter - 1
                /\ sub_i'[i] # sub_i[i] =>
                       /\ pc[i] = "call"
                       /\ \/ /\ sub_i'[i] = sub_i[i] + 1
                             /\ pc'[i] \in {"acquire", "sleep"}
                             /\ pc'[i] = "acquire" =>
                                    rate_limiter' = rate_limiter + 1
                          \/ /\ pc'[i] = "done"
                             /\ rate_limiter' = rate_limiter + 1
                             /\ ret'[i] # None =>
                                    /\ sub_i[i] = Len(sub_chunks[i])
                                    /\ ret'[i] =
                                         DataFrame(ConcatRows(
                                             Append(all_sub_results[i],
                                                    Processed(sub_chunks[i][sub_i[i]]))),
                                             "String")
                                    /\ ret'[i] = Processed(df_chunks[i])]_vars

\* the request for the second sub-chunk of a task is in flight, the result
\* of its first is kept, and meanwhile another task has finished and a
\* third waits for a slot
C13_Witness ==
    \E i \in Tasks :
        /\ OnSubPath(i)
        /\ sub_i[i] = 2
        /\ inflight[i] = JsonText(sub_chunks[i][2])
        /\ all_sub_results[i] = <<Processed(sub_chunks[i][1])>>
        /\ \E j \in Tasks : pc[j] = "done"
        /\ \E j \in Tasks : pc[j] = "acquire"

C15_CleansedIdempotentOnArrays ==
    (fn_call.called /\ fn_call.fn = "response_data_cleansed"
        /\ fn_call.args[1] # None) =>
        LET x == fn_call.args[1]
            n == Len(x.chars)
        IN (n >= 1 /\ x.chars[1] = LB /\ x.chars[n] = RB) =>
               /\ fn_call.ret = x
               /\ response_data_cleansed(fn_call.ret) = fn_call.ret
               /\ response_data_cleansed(response_data_cleansed(x)) =
                      response_data_cleansed(x)

\* an array of two rows, and an array that holds an array
C15_Witness ==
    /\ fn_call.called
    /\ fn_call.fn = "response_data_cleansed"
    /\ fn_call.args[1] \in {Str(<<LB, RowTok(1), RowTok(1), RB>>),
                            Str(<<LB, LB, RowTok(1), RB, RB>>)}
    /\ fn_call.ret = fn_call.args[1]

\* --------------------------------------------------- of the output path alone
\* the path of version n beside the path p
Sibling(p, n) == XlsxPath(p.subfolder, p.prefix, p.time, n)

\* C16: while the minute of the clock stays the same (no call reads the date
\* before a midnight and the time after it),
\* get_versioned_output_path(base, prefix) returns the path without suffix
\* in {base}/Results_{date} exactly when no file is there, and otherwise the
\* path of suffix _v{n} for the smallest n >= 1 that is unused, so the path
\* returned never names a file that exists; two calls with no file created
\* in between return the same path; and the call that follows the writing
\* of the file at the unsuffixed path returns a suffixed one, _v1 when that
\* is unused.
C16_VersionedPath ==
    /\ [](fn_call.called /\ fn_call.fn = "get_versioned_output_path" =>
            LET p == fn_call.ret
            IN /\ p.subfolder.base_dir = fn_call.args[1]
               /\ p.prefix = fn_call.args[2]
               /\ p.time = strftime_time(clock)
               /\ p.subfolder.results \in
                      {strftime_date(clock), strftime_date(clock - 1)}
               /\ p.subfolder \in dirs
               /\ p.version = 0 <=> Sibling(p, 0) \notin files
               /\ p.version >= 1 =>
                      \A n \in 1..(p.version - 1) : Sibling(p, n) \in files
               /\ p \notin files)
    /\ [][(fn_call'.called /\ fn_call'.fn = "get_versioned_output_path"
             /\ fn_call.called /\ clock' = clock) =>
            /\ (fn_call.fn = "get_versioned_output_path"
                  /\ fn_call.ret.subfolder.results.day = fn_call.ret.time.day
                  /\ fn_call'.args = fn_call.args) =>
                   fn_call'.ret = fn_call.ret
            /\ (fn_call.fn = "response_to_excel"
                  /\ fn_call.args[1] \in files
                  /\ fn_call.args[1].version = 0
                  /\ fn_call.args[1].subfolder.results.day =
                         fn_call.args[1].time.day
                  /\ fn_call'.args = <<fn_call.args[1].subfolder.base_dir,
                                       fn_call.args[1].prefix>>) =>
                   /\ fn_call'.ret.version >= 1
                   /\ Sibling(fn_call.args[1], 1) \notin files =>
                          fn_call'.ret = Sibling(fn_call.args[1], 1)]_vars

\* the file of the unsuffixed path and the file of suffix _v1 exist, two
\* calls have been made, and the path returned is the one of suffix _v2
C16_Witness ==
    /\ fn_call.called
    /\ fn_call.fn = "get_versioned_output_path"
    /\ fn_call.ret.version = 2
    /\ {Sibling(fn_call.ret, 0), Sibling(fn_call.ret, 1)} \subseteq files

\* --------------------------------------------- of the pipeline: empty input
\* C17: chunk_polars_dataframe returns the empty list, raising nothing, for
\* the empty table and for None with every chunk size; a run whose input
\* table is empty has no chunk and no task, so no remote call is ever
\* started, and a run whose input could not be read ends before main().
C17_EmptyInputNoDispatch ==
    /\ \A table \in {None, DataFrame(<<>>, "source")}, size \in ChunkSizes :
          /\ ~ChunkRaises(table, size)
          /\ chunk_polars_dataframe(table, size) = <<>>
    /\ (main_pc # "idle" /\ (df = None \/ Len(df.rows) = 0)) =>
          /\ df_chunks = <<>>
          /\ Tasks = {}
          /\ pc = <<>>
          /\ inflight = <<>>
          /\ InFlight = {}
          /\ starts = {}
          /\ completed = <<>>
          /\ all_processed_dfs = <<>>
          /\ main_pc \in {"crashed", "start", "combine", "nothing"}
          /\ df = None <=> main_pc = "crashed"

\* the run of an empty table is over: there was nothing to combine
C17_Witness ==
    /\ df # None
    /\ Len(df.rows) = 0
    /\ df_chunks = <<>>
    /\ main_pc = "nothing"

\* ------------------------------------------------ of the aggregation stage
\* C18: the aggregation of an empty sequence of result tables gives an
\* explicit "nothing to aggregate" outcome and never a table: the function
\* that combines a list of tables, given the empty list, does not return a
\* table.
C18_EmptyAggregationIsExplicit ==
    (fn_call.called /\ fn_call.fn = "combine_dataframes_loop"
        /\ fn_call.args[1] = <<>>) =>
        (fn_call.ret.raised \/ fn_call.ret.df.kind # "DataFrame")

\* combine_dataframes_loop was given the empty list and returned the table
\* of no row and no column
C18_Witness ==
    /\ fn_call.called
    /\ fn_call.fn = "combine_dataframes_loop"
    /\ fn_call.args = <<(<<>>)>>
    /\ fn_call.ret = [raised |-> FALSE, df |-> pl_DataFrame(<<>>)]

\* the run's side of C18: when main() has no result to combine (no chunk, or
\* every chunk failed) it reports that there is nothing to combine, makes no
\* combined table, generates no output path (no subfolder is made) and
\* writes no file
RunWithoutResultsWritesNothing ==
    /\ [](main_pc = "nothing" =>
            /\ all_processed_dfs = <<>>
            /\ \A i \in Tasks : ret[i] = None
            /\ combined_df = None)
    /\ [][(main_pc = "combine" /\ main_pc' # "combine"
             /\ all_processed_dfs = <<>>) =>
            /\ main_pc' = "nothing"
            /\ combined_df' = None
            /\ files' = files
            /\ dirs' = dirs]_vars

\* C19: when the result tables of the chunks do not all have the same
\* columns, the aggregation fails as a whole: the exception of pl.concat is
\* caught by main(), which ends in its except branch; no combined table is
\* made, no output path is generated and no file is written, and the files
\* written before are all still there.
C19_SchemaMismatchFailsWhole ==
    /\ [](main_pc = "crashed" <=> df = None)
    /\ [][(main_pc = "combine" /\ main_pc' # "combine"
             /\ \E k \in 1..Len(all_processed_dfs) :
                    all_processed_dfs[k].columns # all_processed_dfs[1].columns) =>
            /\ main_pc' = "error"
            /\ combined_df' = None
            /\ files' = files
            /\ dirs' = dirs]_vars

\* a run of two chunks ended in the except branch of main(): one result has
\* a column the other has not; the file of an earlier run is on the disk
C19_Witness ==
    /\ main_pc = "error"
    /\ Len(all_processed_dfs) = 2
    /\ all_processed_dfs[1].columns # all_processed_dfs[2].columns
    /\ Cardinality(files) = 1

\* ----------------------------------------------- of the order of collection
\* the results received so far, in the order the tasks finished
ReceivedResults == [k \in 1..collected |-> ret[completed[k]]]

\* where the row r stands in the sequence rows
IndexOf(rows, r) == CHOOSE k \in 1..Len(rows) : rows[k] = r

\* C20: every task is created before any task runs and before any result
\* is received; the accumulator of process_all_chunks holds the results that
\* are not None in the order the tasks finished, never sorted again by chunk
\* index; so in the final table the rows of a chunk that finished earlier
\* stand before the rows of a chunk that finished later, also when the
\* earlier one is the later chunk of the table.
C20_CompletionOrder ==
    /\ (\E i \in Tasks : pc[i] # "new") => (\A i \in Tasks : pc[i] # "new")
    /\ (collected > 0 \/ completed # <<>>) => \A i \in Tasks : pc[i] # "new"
    /\ main_pc \in {"collect", "combine", "written", "nothing"} =>
          all_processed_dfs = NotNone(ReceivedResults)
    /\ main_pc = "written" =>
          /\ combined_df.rows = ConcatRows(NotNone(ReceivedResults))
          /\ \A a \in 1..Len(completed), b \in 1..Len(completed) :
                (a < b /\ ret[completed[a]] # None /\ ret[completed[b]] # None) =>
                    \A x \in 1..Len(ret[completed[a]].rows),
                       y \in 1..Len(ret[completed[b]].rows) :
                        IndexOf(combined_df.rows, ret[completed[a]].rows[x]) <
                        IndexOf(combined_df.rows, ret[completed[b]].rows[y])

\* the last chunk of three finished first and the first chunk last, all
\* succeeded, and the final table begins with the rows of the last chunk
C20_Witness ==
    /\ main_pc = "written"
    /\ Len(df_chunks) = 3
    /\ completed = <<3, 2, 1>>
    /\ \A i \in Tasks : ret[i] # None
    /\ combined_df.rows =
           df_chunks[3].rows \o df_chunks[2].rows \o df_chunks[1].rows

\* ------------------------------------------------------- of the shrinking
\* C21: for a chunk size of at least 1 and a token count above a safe limit
\* of at least 0, calculate_optimal_chunk_size returns a size r with
\* 1 <= r <= current size, and r < current size when the current size is
\* above 1; so giving the result back to the function, for a chunk that is
\* still over the budget, makes the size fall at each step until it is 1,
\* where it stays.
C21_ShrinkingTerminates ==
    /\ [](fn_call.called /\ fn_call.fn = "calculate_optimal_chunk_size"
            /\ fn_call.args[1] >= 1 /\ fn_call.args[3] >= 0
            /\ fn_call.args[2] > fn_call.args[3] =>
              /\ 1 <= fn_call.ret
              /\ fn_call.ret <= fn_call.args[1]
              /\ fn_call.args[1] > 1 => fn_call.ret < fn_call.args[1])
    /\ [][(fn_call.called /\ fn_call'.called
             /\ fn_call.fn = "calculate_optimal_chunk_size"
             /\ fn_call'.fn = "calculate_optimal_chunk_size"
             /\ fn_call'.args[2] > fn_call'.args[3]) =>
            /\ fn_call'.args[1] = fn_call.ret
            /\ fn_call'.ret <= fn_call.ret
            /\ fn_call.ret > 1 => fn_call'.ret < fn_call.ret
            /\ fn_call.ret = 1 => fn_call'.ret = 1]_vars

\* the size has come down to 1 from a size that an earlier call returned
\* (no first call is made with a size of 2 to 14)
C21_Witness ==
    /\ fn_call.called
    /\ fn_call.fn = "calculate_optimal_chunk_size"
    /\ fn_call.args[1] \in 2..14
    /\ fn_call.args[2] > fn_call.args[3]
    /\ fn_call.ret = 1

\* ---------------------------------------------------- of the resubmission
\* the requests that task i has started
RequestsOf(i) == {s \in starts : s.task = i}

\* C22: resubmission is triggered by an invalid budget decision only, is
\* single-level and without retry: a chunk validated as within budget causes
\* exactly one request, which carries the whole chunk; a chunk over the
\* budget causes at most one request per sub-chunk and none for the whole
\* chunk; sub-chunks are not validated or split again; a request is never
\* sent twice.
C22_SingleLevelNoRetry ==
    /\ [](\A i \in Tasks :
            /\ \A a, b \in RequestsOf(i) : a.content = b.content => a = b
            /\ validation[i] # None /\ validation[i].is_valid =>
                 \A a \in RequestsOf(i) : a.content = JsonText(df_chunks[i])
            /\ validation[i] # None /\ ~validation[i].is_valid =>
                 \A a \in RequestsOf(i) :
                    /\ a.content # JsonText(df_chunks[i])
                    /\ \E k \in 1..sub_i[i] :
                          a.content = JsonText(sub_chunks[i][k]))
    /\ [][\A i \in Tasks :
            /\ (validation[i] # None /\ validation[i].is_valid
                  /\ pc[i] # "done" /\ pc'[i] = "done") =>
                 Cardinality({s \in starts' : s.task = i}) = 1
            /\ (validation'[i] # validation[i]
                  \/ token_answer'[i] # token_answer[i]
                  \/ sub_chunks'[i] # sub_chunks[i]) =>
                 pc[i] = "created" \/ pc'[i] = "done"
            /\ pc[i] = "done" =>
                 {s \in starts' : s.task = i} = RequestsOf(i)]_vars

\* a chunk over the budget has started a request
C22_Witness ==
    \E i \in Tasks :
        /\ validation[i] # None
        /\ ~validation[i].is_valid
        /\ RequestsOf(i) # {}

\* the same, the chunks of one row left aside where the claim speaks of no
\* request for the whole chunk
ResubmissionSingleLevel ==
    /\ [](\A i \in Tasks :
            /\ \A a, b \in RequestsOf(i) : a.content = b.content => a = b
            /\ validation[i] # None /\ validation[i].is_valid =>
                 \A a \in RequestsOf(i) : a.content = JsonText(df_chunks[i])
            /\ validation[i] # None /\ ~validation[i].is_valid =>
                 \A a \in RequestsOf(i) :
                    /\ Len(df_chunks[i].rows) > 1 =>
                          a.content # JsonText(df_chunks[i])
                    /\ \E k \in 1..sub_i[i] :
                          a.content = JsonText(sub_chunks[i][k]))
    /\ [][\A i \in Tasks :
            /\ (validation[i] # None /\ validation[i].is_valid
                  /\ pc[i] # "done" /\ pc'[i] = "done") =>
                 Cardinality({s \in starts' : s.task = i}) = 1
            /\ (validation'[i] # validation[i]
                  \/ token_answer'[i] # token_answer[i]
                  \/ sub_chunks'[i] # sub_chunks[i]) =>
                 pc[i] = "created" \/ pc'[i] = "done"
            /\ pc[i] = "done" =>
                 {s \in starts' : s.task = i} = RequestsOf(i)]_vars

\* ------------------------------------------------ of the order of dispatch
\* the rows of the source that a request carries
RowsOf(content) ==
    {content.chars[k].v : k \in {n \in 1..Len(content.chars) :
                                   content.chars[n].t = "row"}}

\* C23: remote calls are dispatched in table order: of two rows r1 before r2
\* of the source that are sent in different requests, the request with r1
\* starts no later than the request with r2, chunks over the budget
\* included.
C23_DispatchInTableOrder ==
    \A a, b \in starts :
        (a # b /\ \E r1 \in RowsOf(a.content), r2 \in RowsOf(b.content) :
                     r1 < r2) =>
            a.at <= b.at

\* a later sub-chunk of a chunk has been sent after the request of a later
\* chunk
C23_Witness ==
    \E a, b \in starts :
        /\ a.task < b.task
        /\ \A r1 \in RowsOf(a.content) : r1 > df_chunks[a.task].rows[1]
        /\ b.at < a.at

\* the same for the chunks that are sent whole, and inside one chunk
DispatchInChunkOrder ==
    \A a, b \in starts :
        (/\ a # b
         /\ \E r1 \in RowsOf(a.content), r2 \in RowsOf(b.content) : r1 < r2
         /\ \/ a.task = b.task
            \/ /\ a.content = JsonText(df_chunks[a.task])
               /\ b.content = JsonText(df_chunks[b.task])) =>
            a.at <= b.at

\* --------------------------------------------- of calls that never return
\* the tasks whose remote call never returns
Hung == {i \in Tasks : pc[i] = "hung"}

\* C24: there is no timeout and no cancellation: a remote call that never
\* returns keeps its slot of the rate limiter for ever, its task never
\* completes, process_all_chunks never returns and no output is written;
\* when REQUESTS_PER_WINDOW calls hang, no further request is dispatched.
C24_HungCallBlocksForever ==
    /\ [](/\ rate_limiter <= REQUESTS_PER_WINDOW - Cardinality(Hung)
          /\ \A i \in Hung :
                /\ ret[i] = Pending
                /\ inflight[i] # None
                /\ \A k \in 1..Len(completed) : completed[k] # i
          /\ Hung # {} =>
                /\ main_pc = "collect"
                /\ collected < Len(df_chunks)
                /\ combined_df = None
                /\ files = {})
    /\ [][/\ Hung \subseteq {i \in Tasks : pc'[i] = "hung"}
          /\ Cardinality(Hung) = REQUESTS_PER_WINDOW =>
                /\ inflight' = inflight
                /\ \A j \in Tasks \ Hung : pc'[j] = pc[j]]_vars

\* every slot is held by a call that never returns and a task waits for one
C24_Witness ==
    /\ Cardinality(Hung) = REQUESTS_PER_WINDOW
    /\ \E j \in Tasks : pc[j] = "acquire"

\* ------------------------------------------------------ of the run's end
\* where the task of chunk i is, "" when there is no such chunk
PcOf(i) == IF i \in Tasks THEN pc[i] ELSE ""

\* C25: when every remote call returns in the end (text or failure), then
\* for any number of chunks, more chunks than REQUESTS_PER_WINDOW and chunks
\* over the budget included, every process_chunk task finishes in the end, no
\* task waits for ever at the rate limiter, and process_all_chunks returns,
\* having collected exactly one outcome per chunk.
C25_EveryTaskFinishes ==
    /\ \A i \in 1..MaxLiveChunks :
          /\ (PcOf(i) = "created") ~> (PcOf(i) = "done")
          /\ (PcOf(i) = "acquire") ~> (PcOf(i) = "sleep")
          /\ (PcOf(i) = "call") ~> (PcOf(i) # "call")
    /\ (main_pc = "start") ~>
          (/\ main_pc = "combine"
           /\ collected = Len(df_chunks)
           /\ Len(completed) = Len(df_chunks)
           /\ \A i \in Tasks :
                 /\ pc[i] = "done"
                 /\ Cardinality({k \in 1..Len(completed) :
                                   completed[k] = i}) = 1)

\* more chunks than slots, one of them over the budget, and
\* process_all_chunks has returned
C25_Witness ==
    /\ main_pc = "combine"
    /\ Len(df_chunks) > REQUESTS_PER_WINDOW
    /\ collected = Len(df_chunks)
    /\ \E i \in Tasks : ret[i] # None /\ Len(ret[i].rows) = CHUNK_SIZE

\* ------------------------------------------------------------ of the slots
\* the tasks inside an "async with rate_limiter" block
InBlock == {i \in Tasks : pc[i] \in {"sleep", "call"}}

\* C26: the slots of the rate limiter are conserved: in every reachable
\* state the free slots plus the tasks inside an "async with rate_limiter"
\* block are REQUESTS_PER_WINDOW; a task holds one slot at most; the slot is
\* given back on every exit (success, remote failure, exception), so that
\* all slots are free when all tasks have finished.
C26_SlotsConserved ==
    /\ rate_limiter \in 0..REQUESTS_PER_WINDOW
    /\ rate_limiter + Cardinality(InBlock) = REQUESTS_PER_WINDOW
    /\ \A i \in Tasks :
          /\ pc[i] \in {"new", "created", "acquire", "done"} =>
                inflight[i] = None
          /\ pc[i] = "done" => i \notin InBlock /\ ret[i] # Pending
    /\ (\A i \in Tasks : pc[i] = "done") =>
          rate_limiter = REQUESTS_PER_WINDOW

\* all tasks have finished, one with its table and one with a failure
C26_Witness ==
    /\ \A i \in Tasks : pc[i] = "done"
    /\ \E i \in Tasks : ret[i] = None
    /\ \E i \in Tasks : ret[i] \notin {None, Pending}
    /\ rate_limiter = REQUESTS_PER_WINDOW

\* ------------------------------------------- of the failure of a sub-chunk
\* the rows of the source that are in one of the tables of dfs
RowsIn(dfs) == UNION {{dfs[k].rows[n] : n \in 1..Len(dfs[k].rows)} :
                        k \in 1..Len(dfs)}

\* C27: the failure of a sub-chunk is all-or-nothing for its chunk: when a
\* chunk goes through the sub-chunk path and one of its sub-chunks fails
\* (remote failure, no JSON array, parse error), process_chunk returns None,
\* the results of the sub-chunks already processed are discarded, the
\* remaining sub-chunks are never sent, and no row of the chunk reaches the
\* aggregate.
C27_SubChunkFailureFailsChunk ==
    /\ [](\A i \in Tasks :
            (pc[i] = "done" /\ ret[i] = None) =>
               /\ all_sub_results[i] = <<>>
               /\ inflight[i] = None
               /\ RowsIn(all_processed_dfs) \cap RowsIn(<<df_chunks[i]>>) = {}
               /\ combined_df # None =>
                     RowsIn(<<combined_df>>) \cap RowsIn(<<df_chunks[i]>>) = {})
    /\ [][\A i \in Tasks :
            /\ (OnSubPath(i) /\ pc[i] = "call" /\ printed'[i] # "") =>
                 /\ pc'[i] = "done"
                 /\ ret'[i] = None
                 /\ all_sub_results'[i] = <<>>
            /\ pc[i] = "done" =>
                 /\ pc'[i] = "done"
                 /\ ret'[i] = ret[i]
                 /\ {s \in starts' : s.task = i} = RequestsOf(i)]_vars

\* two chunks of two sub-chunks each have failed: one at its first
\* sub-chunk, whose second was never sent, one at its second, after its first
\* had been processed; and the driver has received both
C27_Witness ==
    /\ \E i \in Tasks :
          /\ pc[i] = "done" /\ ret[i] = None
          /\ Len(df_chunks[i].rows) > 1
          /\ Cardinality(RequestsOf(i)) = 1
          /\ \A a \in RequestsOf(i) : a.content # JsonText(df_chunks[i])
    /\ \E i \in Tasks :
          /\ pc[i] = "done" /\ ret[i] = None
          /\ Cardinality(RequestsOf(i)) = 2
    /\ collected >= 2

\* --------------------------------------------- of the shape of the result
\* C28: when response_data_cleansed returns a string and not None, the
\* string is not empty, begins with '[' and ends with ']', for every input
\* text, the texts whose last ']' stands before their first '[' included.
C28_CleansedIsBracketed ==
    (fn_call.called /\ fn_call.fn = "response_data_cleansed"
        /\ fn_call.ret # None) =>
        /\ Len(fn_call.ret.chars) > 0
        /\ fn_call.ret.chars[1] = LB
        /\ fn_call.ret.chars[Len(fn_call.ret.chars)] = RB

\* the text is ']' and then '[', and a string was returned
C28_Witness ==
    /\ fn_call.called
    /\ fn_call.fn = "response_data_cleansed"
    /\ fn_call.args[1] = Str(<<RB, NOISE, LB>>)
    /\ fn_call.ret # None

\* the same for the texts whose first '[' stands before their last ']'
CleansedIsBracketedWhenOrdered ==
    (fn_call.called /\ fn_call.fn = "response_data_cleansed"
        /\ fn_call.args[1] # None /\ fn_call.ret # None
        /\ \E a, b \in 1..Len(fn_call.args[1].chars) :
              /\ a < b
              /\ fn_call.args[1].chars[a] = LB
              /\ fn_call.args[1].chars[b] = RB) =>
        /\ Len(fn_call.ret.chars) > 0
        /\ fn_call.ret.chars[1] = LB
        /\ fn_call.ret.chars[Len(fn_call.ret.chars)] = RB

\* ---------------------------------------------- of the shared attribute
\* C29: under every interleaving of the process_chunk tasks, the content of
\* each remote request is the JSON of the rows of that task's own chunk (or
\* sub-chunk), although every task overwrites the attribute data_content of
\* the shared data_processor in convert_to_json_string.
C29_RequestCarriesOwnRows ==
    \A i \in Tasks :
        /\ pc[i] \in {"call", "hung"} <=> inflight[i] # None
        /\ inflight[i] # None =>
              /\ inflight[i] = JsonText(IF sub_chunks[i] # <<>>
                                        THEN sub_chunks[i][sub_i[i]]
                                        ELSE df_chunks[i])
              /\ RowsOf(inflight[i]) # {}
              /\ RowsOf(inflight[i]) \subseteq RowsIn(<<df_chunks[i]>>)

\* a request is in flight while the shared attribute holds the JSON of
\* another task, which wrote it after this task had written its own
C29_Witness ==
    \E i \in Tasks :
        /\ pc[i] = "call"
        /\ data_content # inflight[i]
        /\ RowsOf(data_content) \cap RowsIn(<<df_chunks[i]>>) = {}

\* ------------------------------------------------ of the sizes of no sense
\* C30: chunk_polars_dataframe never drops rows in silence: for a table that
\* is not empty and every integer chunk size, zero and the negative ones
\* included, it raises an error or returns chunks whose rows add up to the
\* rows of the table.
C30_NoSilentRowLoss ==
    (in_df # None /\ Len(in_df.rows) > 0 /\ out_chunks.status # "pending") =>
        \/ out_chunks.status = "raised"
        \/ /\ out_chunks.status = "returned"
           /\ Len(ConcatRows(out_chunks.chunks)) = Len(in_df.rows)

\* a negative size on a table that is not empty, and the call returned
C30_Witness ==
    /\ in_df # None
    /\ Len(in_df.rows) > 0
    /\ in_size < 0
    /\ out_chunks.status = "returned"

\* the same for the sizes that are not negative
NoSilentRowLossFromZero ==
    (in_df # None /\ Len(in_df.rows) > 0 /\ in_size >= 0
        /\ out_chunks.status # "pending") =>
        \/ out_chunks.status = "raised" /\ in_size = 0
        \/ /\ out_chunks.status = "returned"
           /\ Len(ConcatRows(out_chunks.chunks)) = Len(in_df.rows)

====
